---- MODULE Spec2Model ----
(***************************************************************************)
(* A model of the adaptive track-change monitor of RadioPlugin.py:        *)
(* title normalisation, the announce gate (_should_reply_to_radio_event), *)
(* the lazy/active state machine (_process_track_update), _announce_track *)
(* and the lifecycle of the monitor thread (_start_radio, _stop_radio,    *)
(* _monitor_track_changes).                                                *)
(*                                                                         *)
(* Strings are sequences of characters; a character is a one-letter       *)
(* string, or the name of its code point ("U+FB01") when it is not ASCII. *)
(* None is the Python None.                                                *)
(***************************************************************************)
EXTENDS Integers, Sequences, FiniteSets, TLC

None == "None"
\* None where a string is expected: a sequence that no string equals
NoTitle == <<"<None>">>

\* ------------------------------------------------------------------------
\* Program constants (RadioPlugin.py, lines 56-64)
\* ------------------------------------------------------------------------
LAZY_INTERVAL_STANDARD == 90
LAZY_INTERVAL_SPECIAL == 100
ACTIVE_INTERVAL_STANDARD == 15
ACTIVE_INTERVAL_SPECIAL == 20
COMMAND_RESPONSE_DELAY == 8
MIN_TITLE_LENGTH == 3

\* ------------------------------------------------------------------------
\* Bounds of the model
\* ------------------------------------------------------------------------
\* the gate is not evaluated once a repeat counter would pass this value
MaxRepeat == 2
\* dispatched events waiting for the host
MaxEvents == 2
\* thread objects that can exist at the same time
NThreadSlots == 2
\* characters of a title given to normalize_title in SpecNormalize
MaxTitleLen == 3
\* polls recorded by the end-to-end scenario
MaxTicks == 4

\* ------------------------------------------------------------------------
\* Characters and strings (str.strip, str.lower, str.casefold,
\* unicodedata.normalize('NFKC', .), the substring test)
\* ------------------------------------------------------------------------
\* str.isspace of one character: the blank and the no-break space
isspace(c) == c \in {" ", "U+00A0"}

UpperCase ==
    {"A", "B", "D", "E", "F", "H", "J", "K", "L", "M", "N", "O", "P", "R", "S",
     "U", "W"}

LowerOf(c) ==
    CASE c = "A" -> "a" [] c = "B" -> "b" [] c = "E" -> "e" [] c = "K" -> "k"
      [] c = "N" -> "n" [] c = "O" -> "o" [] c = "S" -> "s" [] c = "U" -> "u"
      [] c = "W" -> "w" [] c = "D" -> "d" [] c = "F" -> "f" [] c = "H" -> "h"
      [] c = "J" -> "j" [] c = "L" -> "l" [] c = "M" -> "m" [] c = "P" -> "p"
      [] c = "R" -> "r"
      \* LATIN CAPITAL LETTER E WITH ACUTE
      [] c = "U+00C9" -> "U+00E9"
      [] OTHER -> c

\* str.lower, character by character
RECURSIVE lower(_)
lower(s) == IF s = <<>> THEN <<>> ELSE <<LowerOf(Head(s))>> \o lower(Tail(s))

\* str.casefold of one character: lower case, and the full case foldings
\* (LATIN SMALL LETTER SHARP S -> "ss", LATIN SMALL LIGATURE FI -> "fi")
CasefoldOf(c) ==
    CASE c = "U+00DF" -> <<"s", "s">>
      [] c = "U+FB01" -> <<"f", "i">>
      [] OTHER -> <<LowerOf(c)>>

RECURSIVE casefold(_)
casefold(s) == IF s = <<>> THEN <<>> ELSE CasefoldOf(Head(s)) \o casefold(Tail(s))

\* compatibility decomposition (NFKD) of one character
DecompOf(c) ==
    CASE c = "U+FB01" -> <<"f", "i">>          \* ligature fi
      [] c = "U+00A0" -> <<" ">>               \* no-break space
      [] c = "U+00E9" -> <<"e", "U+0301">>     \* e with acute
      [] c = "U+00C9" -> <<"E", "U+0301">>     \* E with acute
      [] c = "U+00A8" -> <<" ", "U+0308">>     \* diaeresis
      [] c = "U+015B" -> <<"s", "U+0301">>     \* s with acute
      [] OTHER -> <<c>>

RECURSIVE decompose(_)
decompose(s) == IF s = <<>> THEN <<>> ELSE DecompOf(Head(s)) \o decompose(Tail(s))

\* canonical composition of a starter and the combining mark after it
RECURSIVE compose(_)
compose(s) ==
    IF Len(s) < 2 THEN s
    ELSE IF s[1] = "e" /\ s[2] = "U+0301" THEN <<"U+00E9">> \o compose(Tail(Tail(s)))
    ELSE IF s[1] = "E" /\ s[2] = "U+0301" THEN <<"U+00C9">> \o compose(Tail(Tail(s)))
    ELSE IF s[1] = "s" /\ s[2] = "U+0301" THEN <<"U+015B">> \o compose(Tail(Tail(s)))
    ELSE <<Head(s)>> \o compose(Tail(s))

\* unicodedata.normalize('NFKC', s)
NFKC(s) == compose(decompose(s))

RECURSIVE lstrip(_)
lstrip(s) == IF s # <<>> /\ isspace(Head(s)) THEN lstrip(Tail(s)) ELSE s

RECURSIVE rstrip(_)
rstrip(s) ==
    IF s # <<>> /\ isspace(s[Len(s)]) THEN rstrip(SubSeq(s, 1, Len(s) - 1)) ELSE s

\* str.strip
strip(s) == rstrip(lstrip(s))

\* sub in s
contains(s, sub) ==
    \E i \in 1..(Len(s) - Len(sub) + 1) : SubSeq(s, i, i + Len(sub) - 1) = sub

unknown == <<"u", "n", "k", "n", "o", "w", "n">>

\* RadioPlugin.normalize_title
normalize_title(title) ==
    IF title = <<>> \/ title = NoTitle THEN <<>> ELSE casefold(NFKC(strip(title)))

\* ------------------------------------------------------------------------
\* Titles a backend can return, and stations
\* ------------------------------------------------------------------------
SongA == <<"S", "o", "n", "g", " ", "A">>
SongB == <<"S", "o", "n", "g", " ", "B">>
\* the same track as SongA from another backend: other case, padded
SongAVariant == <<" ", "s", "o", "n", "g", " ", "a", " ">>
UnknownTitle == <<"U", "n", "k", "n", "o", "w", "n">>
ShortTitle == <<"a", "b">>
\* three code points that NFKC composes to two: "a", "e", COMBINING ACUTE
ComposingTitle == <<"a", "e", "U+0301">>
\* two code points that NFKC expands to three: ligature fi, "x"
LigatureTitle == <<"U+FB01", "x">>
\* two letters between no-break spaces
PaddedShortTitle == <<"U+00A0", "a", "b", "U+00A0">>
UpperUnknownTitle == <<"S", "o", "n", "g", " ", "U", "N", "K", "N", "O", "W", "N">>
\* a title that is not empty and is blank
BlankTitle == <<" ">>
\* what get_hutton_track_info returns when it has no title
\* (hutton_orbital_track_retriever.py, lines 33, 44, 59, 62)
Unavailable == <<"U", "n", "a", "v", "a", "i", "l", "a", "b", "l", "e">>

\* every title of the model
AllTitles ==
    { <<>>, SongA, UnknownTitle, ShortTitle, SongAVariant, ComposingTitle,
      SongB, LigatureTitle, PaddedShortTitle, UpperUnknownTitle, BlankTitle,
      Unavailable }

\* normalize_title, tabulated once over the titles of the model
NormalizedTitle == [t \in AllTitles \cup {NoTitle} |-> normalize_title(t)]

\* the titles of gate candidates in SpecGate
GateTitles == { <<>>, SongA, UnknownTitle, ShortTitle, SongAVariant, ComposingTitle }

\* RADIO_STATIONS (lines 69-142): a standard station and a special one
Stations == {"Radio Sidewinder", "Radio DeeJay"}

\* the titles the backends return in Spec
ProviderTitles == { <<>>, SongA, UnknownTitle, ShortTitle }

\* the titles the state machine is fed in SpecSM and SpecE2E
SMTitles == { SongA, UnknownTitle, ShortTitle, SongAVariant, SongB, BlankTitle }

\* ------------------------------------------------------------------------
\* State
\* ------------------------------------------------------------------------
VARIABLES
    \* RadioPlugin._last_replied_title, _last_replied_station,
    \* _title_repeat_count: the memory of the announce gate
    last_replied_title,
    last_replied_station,
    title_repeat_count,
    \* RadioPlugin.monitor_state: the one MonitorState object
    monitor_state,
    \* RadioPlugin.current_station, player (TRUE: a vlc.MediaPlayer), playing
    current_station,
    player,
    playing,
    \* RadioPlugin.stop_monitor (threading.Event) and track_monitor_thread
    stop_monitor,
    track_monitor_thread,
    \* RadioPlugin._radio_state
    radio_state,
    \* the Thread objects: program counter and locals of _monitor_track_changes
    threads,
    \* the host thread that runs the actions: the command in progress
    command,
    \* events given to helper.dispatch_event that the host has not handled yet
    events,
    \* observers: the last evaluation of the gate (SpecGate); the last
    \* _process_track_update: its title, its calls of _announce_track, the mode
    \* and the baseline it found (SpecSM, SpecE2E); the polls of the end-to-end
    \* scenario and the announcements the gate accepted in it (SpecE2E)
    gate_call,
    sm_call,
    ticks,
    accepted,
    \* time (SpecTimed): what is left of each thread's time.sleep, the
    \* check_interval local of each thread and the station of its last call
    \* of a provider, how long the host has been in
    \* its blocking call, and the time since line 633 last ran (gap: what
    \* that time was when the poll in progress ran line 633), since the last
    \* play or change command and since stop_monitor was set
    clock,
    \* observer (SpecNormalize): a title, what normalize_title returns for it
    \* and what it returns for that result
    normalize_call,
    \* observer (Spec): _start_radio has set self.current_station to a station
    \* other than the one the MonitorState was for, and no thread has called
    \* _get_track_info since
    station_change

gate_vars == <<last_replied_title, last_replied_station, title_repeat_count>>

plugin_vars == <<current_station, player, playing, stop_monitor, track_monitor_thread>>

observer_vars ==
    <<gate_call, sm_call, ticks, accepted, clock, normalize_call, station_change>>

\* the observers but station_change
call_vars == <<gate_call, sm_call, ticks, accepted, clock, normalize_call>>

vars ==
    <<last_replied_title, last_replied_station, title_repeat_count, monitor_state,
      current_station, player, playing, stop_monitor, track_monitor_thread,
      radio_state, threads, command, events, gate_call, sm_call, ticks, accepted,
      clock, normalize_call, station_change>>

\* ------------------------------------------------------------------------
\* The announce gate: RadioPlugin._should_reply_to_radio_event
\* ------------------------------------------------------------------------
\* plugin_event_content = [title, station, command_triggered, time.time()]
EventContent(title, station, command_triggered) ==
    [title |-> title, station |-> station, command_triggered |-> command_triggered]

\* the flag read at an index the content does not have
content_command_triggered_lost(content) == FALSE

\* line 376: command_triggered = content[2] if len(content) > 2 else False
content_command_triggered(content) == content.command_triggered

\* the placeholder looked for without lowering the title
invalid_title_case_sensitive(title) ==
    \/ title = <<>>
    \/ contains(title, unknown)
    \/ Len(strip(title)) < MIN_TITLE_LENGTH

\* line 383: not title or "unknown" in title.lower()
\*           or len(title.strip()) < MIN_TITLE_LENGTH
invalid_title(title) ==
    \/ title = <<>>
    \/ contains(lower(title), unknown)
    \/ Len(strip(title)) < MIN_TITLE_LENGTH

\* invalid_title, tabulated once over the titles of the model
InvalidTitle == [t \in AllTitles |-> invalid_title(t)]

\* the key built from the title alone
track_key_without_station(normalized_title, station) == <<normalized_title, None>>

\* line 393: track_key = f"{normalized_title}|{station}". No station name
\* holds a "|", so the key determines the pair and the pair is the key.
track_key(normalized_title, station) == <<normalized_title, station>>

\* dict.get(key, default)
Get(dict, key, default) == IF key \in DOMAIN dict THEN dict[key] ELSE default

\* dict[key] = value
Put(dict, key, value) ==
    [k \in DOMAIN dict \cup {key} |-> IF k = key THEN value ELSE dict[k]]

\* the last reply compared as stored, not normalized
same_as_last_reply_raw(normalized_title, station, last_title, last_station) ==
    /\ normalized_title = last_title
    /\ station = last_station

\* line 410: normalized_title == last_title_norm and station == last_station
same_as_last_reply(normalized_title, station, last_title, last_station) ==
    \* line 388: last_title_norm = normalize_title(_last_replied_title or "")
    /\ normalized_title = NormalizedTitle[IF last_title = NoTitle THEN <<>> ELSE last_title]
    /\ station = last_station

\* the first occurrence counted as a repeat
is_repeat_off_by_one(count) == count >= 1

\* a track turned away from its third occurrence on
is_repeat_after_two(count) == count > 2

\* line 417: self._title_repeat_count[track_key] > 1
is_repeat(count) == count > 1

\* The gate on the memory mem = [title, station, count]: what it returns
\* (reply) and the memory it leaves.
should_reply_to_radio_event(mem, content) ==
    LET title == content.title
        station == content.station
        normalized_title == NormalizedTitle[title]
        key == track_key(normalized_title, station)
        count == Get(mem.count, key, 0) + 1
    IN  IF InvalidTitle[title]
        THEN [reply |-> FALSE, mem |-> mem]
        ELSE IF content_command_triggered(content)
        THEN [reply |-> TRUE,
              mem |-> [title |-> title, station |-> station,
                       count |-> Put(mem.count, key, 0)]]
        ELSE IF same_as_last_reply(normalized_title, station, mem.title, mem.station)
        THEN [reply |-> FALSE, mem |-> mem]
        ELSE IF is_repeat(count)
        THEN [reply |-> FALSE,
              mem |-> [mem EXCEPT !.count = Put(mem.count, key, count)]]
        ELSE [reply |-> TRUE,
              mem |-> [title |-> title, station |-> station,
                       count |-> Put(mem.count, key, count)]]

GateMemory ==
    [title |-> last_replied_title, station |-> last_replied_station,
     count |-> title_repeat_count]

\* RadioPlugin.__init__, lines 218-222
CleanMemory == [title |-> NoTitle, station |-> None, count |-> <<>>]

\* the memory of the gate after a reset at every command (a plausible bug)
memory_cleared_by_command(mem) == CleanMemory

\* The memory of the gate after _start_radio, _stop_radio, the start of the
\* monitor thread and reset_for_station_change: none of them assigns
\* _last_replied_title, _last_replied_station or _title_repeat_count (the
\* title_repeat_count that MonitorState declares at line 179 is another
\* object, which nothing reads or writes).
memory_after_command(mem) == mem

MemoryBecomes(mem) ==
    /\ last_replied_title' = mem.title
    /\ last_replied_station' = mem.station
    /\ title_repeat_count' = mem.count

GateInit ==
    /\ last_replied_title = CleanMemory.title
    /\ last_replied_station = CleanMemory.station
    /\ title_repeat_count = CleanMemory.count

NoCall ==
    [content |-> EventContent(NoTitle, None, FALSE), reply |-> FALSE,
     clean |-> FALSE, dup |-> FALSE, seen |-> 0, again |-> FALSE]

\* an evaluation that remembers its candidate whatever it answers
GateEvaluate_remembers_rejected(content) ==
    LET r == should_reply_to_radio_event(GateMemory, content)
    IN  /\ \A k \in DOMAIN r.mem.count : r.mem.count[k] <= MaxRepeat
        /\ last_replied_title' = content.title
        /\ last_replied_station' = content.station
        /\ title_repeat_count' = r.mem.count

\* One evaluation of the gate by the host on a dispatched event.
GateEvaluate(content) ==
    LET r == should_reply_to_radio_event(GateMemory, content)
    IN  /\ \A k \in DOMAIN r.mem.count : r.mem.count[k] <= MaxRepeat
        /\ last_replied_title' = r.mem.title
        /\ last_replied_station' = r.mem.station
        /\ title_repeat_count' = r.mem.count

\* The observer gate_call of an evaluation: the candidate, the answer, and
\* what the memory was before: clean (as constructed), dup (the candidate is
\* the last reply), seen (the candidate's repeat counter), again (the
\* candidate is the one of the evaluation before).
GateObserved(content) ==
    LET normalized_title == NormalizedTitle[content.title]
    IN  gate_call' =
            [content |-> content,
             reply |-> should_reply_to_radio_event(GateMemory, content).reply,
             clean |-> GateMemory = CleanMemory,
             dup |-> /\ normalized_title =
                          NormalizedTitle[IF last_replied_title = NoTitle
                                          THEN <<>> ELSE last_replied_title]
                     /\ content.station = last_replied_station,
             seen |-> Get(title_repeat_count,
                          <<normalized_title, content.station>>, 0),
             again |-> gate_call # NoCall /\ gate_call.content = content]

\* ------------------------------------------------------------------------
\* MonitorState (lines 159-204)
\* ------------------------------------------------------------------------
\* lines 305-349: the substring tests on the lowered station name
\* the station identifiers of the model: None, the empty string, four stations
\* of RADIO_STATIONS (lines 66-126) and two names that are not in it
StationIds ==
    {None, "", "Radio Sidewinder", "Radio DeeJay", "SomaFM Lush",
     "Hutton Orbital Radio", "Radio Nowhere", "Plush Radio"}

\* the characters of a station name
StationChars(station_name) ==
    CASE station_name = "Radio Sidewinder" ->
            <<"R", "a", "d", "i", "o", " ", "S", "i", "d", "e", "w", "i", "n", "d", "e", "r">>
      [] station_name = "Radio DeeJay" ->
            <<"R", "a", "d", "i", "o", " ", "D", "e", "e", "J", "a", "y">>
      [] station_name = "SomaFM Lush" ->
            <<"S", "o", "m", "a", "F", "M", " ", "L", "u", "s", "h">>
      [] station_name = "Hutton Orbital Radio" ->
            <<"H", "u", "t", "t", "o", "n", " ", "O", "r", "b", "i", "t", "a", "l", " ", "R", "a", "d", "i", "o">>
      [] station_name = "Radio Nowhere" ->
            <<"R", "a", "d", "i", "o", " ", "N", "o", "w", "h", "e", "r", "e">>
      [] station_name = "Plush Radio" ->
            <<"P", "l", "u", "s", "h", " ", "R", "a", "d", "i", "o">>
      [] OTHER -> <<>>

\* line 316: the names of known SomaFM stations
somafm_station_names ==
    { <<"d", "e", "e", "p", "s", "p", "a", "c", "e", "o", "n", "e">>,
      <<"d", "e", "e", "p", " ", "s", "p", "a", "c", "e", " ", "o", "n", "e">>,
      <<"g", "r", "o", "o", "v", "e", "s", "a", "l", "a", "d">>,
      <<"g", "r", "o", "o", "v", "e", " ", "s", "a", "l", "a", "d">>,
      <<"s", "p", "a", "c", "e", "s", "t", "a", "t", "i", "o", "n">>,
      <<"s", "p", "a", "c", "e", " ", "s", "t", "a", "t", "i", "o", "n">>,
      <<"s", "e", "c", "r", "e", "t", "a", "g", "e", "n", "t">>,
      <<"s", "e", "c", "r", "e", "t", " ", "a", "g", "e", "n", "t">>,
      <<"d", "e", "f", "c", "o", "n">>,
      <<"l", "u", "s", "h">>,
      <<"s", "y", "n", "p", "h", "a", "e", "r", "a">> }

\* lines 328-331: the stations of RADIO_STATIONS with a SomaFM url
SomaFMUrlStations == {"SomaFM Lush"}

\* line 307 (and 340, 347): not station_name
falsy(station_name) == station_name = None \/ station_name = ""

\* lines 305-333
somafm_station(station_name) ==
    LET station_name_lower == lower(StationChars(station_name))
    IN  /\ ~falsy(station_name)
        /\ \/ contains(station_name_lower, <<"s", "o", "m", "a", "f", "m">>)
           \/ contains(station_name_lower, <<"s", "o", "m", "a", ".", "f", "m">>)
           \/ \E somafm_name \in somafm_station_names :
                 contains(station_name_lower, somafm_name)
           \/ station_name \in SomaFMUrlStations

\* lines 335-340
hutton_station(station_name) ==
    /\ ~falsy(station_name)
    /\ contains(lower(StationChars(station_name)), <<"h", "u", "t", "t", "o", "n">>)

\* lines 342-349
deejay_station(station_name) ==
    /\ ~falsy(station_name)
    /\ contains(lower(StationChars(station_name)), <<"d", "e", "e", "j", "a", "y">>)

\* the three tests, tabulated once over the station identifiers of the model
SomaFMStations == {s \in StationIds : somafm_station(s)}

HuttonStations == {s \in StationIds : hutton_station(s)}

DeejayStations == {s \in StationIds : deejay_station(s)}

is_somafm_station(station_name) == station_name \in SomaFMStations

is_hutton_station(station_name) == station_name \in HuttonStations

is_deejay_station(station_name) == station_name \in DeejayStations

\* a test that knows SomaFM and Hutton only (the docstring of line 353)
is_special_station_without_deejay(station_name) ==
    \/ is_somafm_station(station_name)
    \/ is_hutton_station(station_name)

\* RadioPlugin.is_special_station
is_special_station(station_name) ==
    \/ is_somafm_station(station_name)
    \/ is_hutton_station(station_name)
    \/ is_deejay_station(station_name)

\* MonitorState(): the defaults of the dataclass. last_check_time is 0 or 1,
\* 1 standing for a value of time.time(); the fields nothing reads
\* (last_normalized_title, last_event_time, title_repeat_count) are left out.
NewMonitorState ==
    [current_station |-> None,
     last_title |-> <<>>,
     last_check_time |-> 0,
     command_triggered |-> FALSE,
     is_lazy_mode |-> TRUE,
     checks_without_change |-> 0,
     prev_check_title |-> NoTitle,
     lazy_interval |-> LAZY_INTERVAL_STANDARD,
     active_interval |-> ACTIVE_INTERVAL_STANDARD]

\* MonitorState.current_interval
current_interval(state) ==
    IF state.is_lazy_mode THEN state.lazy_interval ELSE state.active_interval

\* MonitorState.update_intervals_for_station
update_intervals_for_station(state, station_name) ==
    [state EXCEPT
        !.lazy_interval = IF is_special_station(station_name)
                          THEN LAZY_INTERVAL_SPECIAL ELSE LAZY_INTERVAL_STANDARD,
        !.active_interval = IF is_special_station(station_name)
                            THEN ACTIVE_INTERVAL_SPECIAL ELSE ACTIVE_INTERVAL_STANDARD]

\* MonitorState.reset_for_station_change
reset_for_station_change(state, new_station) ==
    update_intervals_for_station(
        [state EXCEPT !.current_station = new_station,
                      !.last_title = <<>>,
                      !.last_check_time = 0,
                      !.is_lazy_mode = TRUE,
                      !.checks_without_change = 0,
                      !.prev_check_title = NoTitle],
        new_station)

\* ------------------------------------------------------------------------
\* RadioPlugin._process_track_update (lines 694-747)
\* ------------------------------------------------------------------------
\* the first unchanged lazy check already switches to active mode
switch_to_active_on_first(checks_without_change) == checks_without_change >= 1

\* only the third unchanged lazy check switches to active mode
switch_to_active_on_third(checks_without_change) == checks_without_change >= 3

\* line 729: two unchanged lazy checks switch to active mode
switch_to_active(checks_without_change) == checks_without_change >= 2

\* the branch the call takes
process_branch(state, normalized_title, command_triggered) ==
    IF state.is_lazy_mode
    THEN IF state.prev_check_title = NoTitle THEN "lazy_first"
         ELSE IF normalized_title # state.prev_check_title THEN "lazy_changed"
         ELSE "lazy_unchanged"
    ELSE IF normalized_title # state.last_title \/ command_triggered
         THEN "active_changed"
         ELSE "active_unchanged"

\* the first lazy check captures the baseline without a call
announces_changes_only(branch) == branch \in {"lazy_changed", "active_changed"}

\* does the branch call _announce_track
announces(branch) == branch \in {"lazy_first", "lazy_changed", "active_changed"}

\* the first lazy check does not store the baseline
before_announce_no_baseline(state, branch, normalized_title) == state

\* what the branch writes before it calls _announce_track (line 703)
before_announce(state, branch, normalized_title) ==
    IF branch = "lazy_first"
    THEN [state EXCEPT !.prev_check_title = normalized_title]
    ELSE state

\* a change found in active mode that leaves the mode and the counter alone
after_announce_stays_active(state, branch, normalized_title) ==
    CASE branch = "lazy_first" ->
            [state EXCEPT !.command_triggered = FALSE,
                          !.last_title = normalized_title]
      [] branch = "lazy_changed" ->
            [state EXCEPT !.prev_check_title = normalized_title,
                          !.last_title = normalized_title,
                          !.checks_without_change = 0,
                          !.command_triggered = FALSE]
      [] branch = "lazy_unchanged" ->
            [state EXCEPT !.checks_without_change = @ + 1,
                          !.is_lazy_mode = ~switch_to_active(state.checks_without_change + 1)]
      [] branch = "active_changed" ->
            [state EXCEPT !.last_title = normalized_title,
                          !.command_triggered = FALSE,
                          !.prev_check_title = normalized_title]
      [] OTHER -> state

\* a change found in active mode that leaves the lazy baseline as it was
after_announce_keeps_baseline(state, branch, normalized_title) ==
    CASE branch = "lazy_first" ->
            [state EXCEPT !.command_triggered = FALSE,
                          !.last_title = normalized_title]
      [] branch = "lazy_changed" ->
            [state EXCEPT !.prev_check_title = normalized_title,
                          !.last_title = normalized_title,
                          !.checks_without_change = 0,
                          !.command_triggered = FALSE]
      [] branch = "lazy_unchanged" ->
            [state EXCEPT !.checks_without_change = @ + 1,
                          !.is_lazy_mode = ~switch_to_active(state.checks_without_change + 1)]
      [] branch = "active_changed" ->
            [state EXCEPT !.last_title = normalized_title,
                          !.command_triggered = FALSE,
                          !.is_lazy_mode = TRUE,
                          !.checks_without_change = 0]
      [] OTHER -> state

\* what the branch writes after _announce_track has returned, or without
\* calling it (lines 708-710, 718-722, 725-730, 739-746)
after_announce(state, branch, normalized_title) ==
    CASE branch = "lazy_first" ->
            [state EXCEPT !.command_triggered = FALSE,
                          !.last_title = normalized_title]
      [] branch = "lazy_changed" ->
            [state EXCEPT !.prev_check_title = normalized_title,
                          !.last_title = normalized_title,
                          !.checks_without_change = 0,
                          !.command_triggered = FALSE]
      [] branch = "lazy_unchanged" ->
            [state EXCEPT !.checks_without_change = @ + 1,
                          !.is_lazy_mode = ~switch_to_active(state.checks_without_change + 1)]
      [] branch = "active_changed" ->
            [state EXCEPT !.last_title = normalized_title,
                          !.command_triggered = FALSE,
                          !.is_lazy_mode = TRUE,
                          !.checks_without_change = 0,
                          !.prev_check_title = normalized_title]
      [] OTHER -> state

\* the whole call, run without interruption: the state it leaves and the
\* calls of _announce_track it makes (none or one)
process_track_update(state, display_title, normalized_title) ==
    LET command_triggered == state.command_triggered
        branch == process_branch(state, normalized_title, command_triggered)
    IN  [state |-> after_announce(before_announce(state, branch, normalized_title),
                                  branch, normalized_title),
         announce |-> IF announces(branch)
                      THEN <<EventContent(display_title, state.current_station,
                                          command_triggered)>>
                      ELSE <<>>]

\* ------------------------------------------------------------------------
\* RadioPlugin._announce_track (lines 749-792)
\* ------------------------------------------------------------------------
\* only the empty title turned away
announce_rejects_empty_only(title) == title = <<>>

\* line 752: not title or len(title.strip()) < MIN_TITLE_LENGTH
announce_rejects(title) == title = <<>> \/ Len(strip(title)) < MIN_TITLE_LENGTH

\* announce_rejects, tabulated once over the titles of the model
AnnounceRejects == [t \in AllTitles |-> announce_rejects(t)]

\* lines 769-774 and __init__, lines 225-230
ClearedRadioState ==
    [current_station |-> None, current_title |-> NoTitle, command_triggered |-> FALSE]

\* lines 783-788
UpdatedRadioState(content) ==
    [current_station |-> content.station, current_title |-> content.title,
     command_triggered |-> content.command_triggered]

\* the events helper.dispatch_event is given by the calls
dispatched(calls) ==
    IF calls # <<>> /\ ~AnnounceRejects[calls[1].title] THEN calls ELSE <<>>

\* The calls of _announce_track made by one _process_track_update, run
\* without interruption.
AnnounceTracks(calls) ==
    /\ Len(events) + Len(dispatched(calls)) <= MaxEvents
    /\ events' = events \o dispatched(calls)
    /\ radio_state' = IF dispatched(calls) # <<>>
                      THEN UpdatedRadioState(calls[1]) ELSE radio_state

\* ------------------------------------------------------------------------
\* Construction: RadioPlugin.__init__ (lines 210-230)
\* ------------------------------------------------------------------------
Slots == 1..NThreadSlots

\* self.track_monitor_thread = None (line 215): no Thread object
NoThread == 0

\* _stop_radio without its line 535
stop_keeps_command_triggered(state) == state

\* _stop_radio, line 535: self.monitor_state.command_triggered = False
stop_clears_command_triggered(state) == [state EXCEPT !.command_triggered = FALSE]

\* a Thread object that is not alive, and the locals of a thread that has
\* none yet; after_stop observes whether stop_monitor was set when the
\* _get_track_info of the poll in progress returned its title, and
\* retrieved_from the station name that call was given
DeadThread ==
    [pc |-> "dead", i |-> 0, station |-> None, display_title |-> <<>>,
     branch |-> "none", call |-> <<>>, after_stop |-> FALSE,
     retrieved_from |-> None]

Idle == [pc |-> "idle", op |-> "none", station |-> None, url |-> FALSE]

\* time is counted in half seconds: time.sleep(0.5) (lines 493, 780)
HalfSecond == 1

Seconds(n) == 2 * n * HalfSecond

\* join(timeout=2) (line 547)
JoinTimeout == Seconds(2)

\* time.sleep(5) (line 658)
ErrorSleep == Seconds(5)

\* the clocks stop counting at these values
CheckClockCap == Seconds(LAZY_INTERVAL_SPECIAL)

CommandClockCap == Seconds(COMMAND_RESPONSE_DELAY)

StopClockCap == Seconds(3)

\* no thread sleeps, nothing has run yet
ClockInit ==
    [wake |-> [t \in Slots |-> 0],
     check_interval |-> [t \in Slots |-> 0],
     asked |-> [t \in Slots |-> None],
     gap |-> [t \in Slots |-> 0],
     host_wait |-> 0,
     since_check |-> CheckClockCap,
     since_command |-> CommandClockCap,
     since_stop |-> StopClockCap]

NoProcessCall ==
    [display_title |-> <<>>, announce |-> <<>>, was_lazy |-> TRUE,
     had_baseline |-> FALSE]

\* no call of normalize_title observed
NoNormalizeCall == [title |-> <<>>, called |-> FALSE, once |-> <<>>, twice |-> <<>>]

\* the state after RadioPlugin.__init__ (lines 210-232)
InitPlugin ==
    /\ GateInit
    /\ monitor_state = NewMonitorState
    /\ current_station = None
    /\ player = FALSE
    /\ playing = FALSE
    /\ stop_monitor = FALSE
    /\ track_monitor_thread = NoThread
    /\ radio_state = ClearedRadioState
    /\ threads = [t \in Slots |-> DeadThread]
    /\ command = Idle
    /\ events = <<>>
    /\ gate_call = NoCall
    /\ sm_call = NoProcessCall
    /\ ticks = <<>>
    /\ accepted = <<>>
    /\ clock = ClockInit
    /\ station_change = FALSE

Init ==
    /\ InitPlugin
    /\ normalize_call = NoNormalizeCall

\* ------------------------------------------------------------------------
\* SpecGate: the host evaluates the gate on arbitrary candidates
\* ------------------------------------------------------------------------
HostEvaluates ==
    \E title \in GateTitles, station \in Stations, command_triggered \in BOOLEAN :
        /\ GateEvaluate(EventContent(title, station, command_triggered))
        /\ GateObserved(EventContent(title, station, command_triggered))
        /\ UNCHANGED <<monitor_state, plugin_vars, radio_state, threads, command,
                       events, sm_call, ticks, accepted, clock, normalize_call,
                       station_change>>

NextGate == HostEvaluates

SpecGate == Init /\ [][NextGate]_vars

\* ------------------------------------------------------------------------
\* SpecAuto: the host evaluates the gate on candidates of the monitor alone,
\* none of them command-triggered; accepted keeps the (normalized title,
\* station) pairs the gate has accepted
\* ------------------------------------------------------------------------
HostEvaluatesAuto ==
    \E title \in GateTitles, station \in Stations :
        LET content == EventContent(title, station, FALSE)
        IN  /\ GateEvaluate(content)
            /\ GateObserved(content)
            /\ accepted' = IF should_reply_to_radio_event(GateMemory, content).reply
                           THEN Append(accepted, <<NormalizedTitle[title], station>>)
                           ELSE accepted
            /\ UNCHANGED <<monitor_state, plugin_vars, radio_state, threads, command,
                           events, sm_call, ticks, clock, normalize_call,
                           station_change>>

NextAuto == HostEvaluatesAuto

SpecAuto == Init /\ [][NextAuto]_vars

\* ------------------------------------------------------------------------
\* SpecNormalize: normalize_title applied to a title, and to its own result
\* ------------------------------------------------------------------------
\* the characters of the titles: the blank, the no-break space, "e", "B",
\* COMBINING ACUTE ACCENT, DIAERESIS, LATIN SMALL LETTER SHARP S
TitleChars == {" ", "U+00A0", "e", "B", "U+0301", "U+00A8", "U+00DF"}

\* the titles of at most MaxTitleLen characters, and None
TitleInputs == UNION {[1..n -> TitleChars] : n \in 0..MaxTitleLen} \cup {NoTitle}

InitNormalize ==
    /\ InitPlugin
    /\ \E title \in TitleInputs :
          normalize_call = [NoNormalizeCall EXCEPT !.title = title]

NormalizeTitle ==
    /\ ~normalize_call.called
    /\ normalize_call' =
          [title |-> normalize_call.title,
           called |-> TRUE,
           once |-> normalize_title(normalize_call.title),
           twice |-> normalize_title(normalize_title(normalize_call.title))]
    /\ UNCHANGED <<gate_vars, monitor_state, plugin_vars, radio_state, threads,
                   command, events, gate_call, sm_call, ticks, accepted, clock,
                   station_change>>

NextNormalize == NormalizeTitle

SpecNormalize == InitNormalize /\ [][NextNormalize]_vars

\* ------------------------------------------------------------------------
\* SpecSM: one session after the other, every operation run without
\* interruption: _start_radio, the start of the monitor thread, the polls of
\* its loop, _stop_radio, and the host handling the events
\* ------------------------------------------------------------------------
Running == [DeadThread EXCEPT !.pc = "loop"]

Begun == [DeadThread EXCEPT !.pc = "begin"]

\* _start_radio with a resolvable url (lines 486-516). A monitor thread that
\* is alive either ends within the join of _stop_radio and a new thread is
\* started, or outlives the join and goes on.
SMStart(station, outlives) ==
    /\ outlives => threads[1].pc = "loop"
    /\ current_station' = station
    /\ player' = TRUE
    /\ playing' = TRUE
    /\ stop_monitor' = FALSE
    /\ monitor_state' =
          reset_for_station_change([monitor_state EXCEPT !.command_triggered = TRUE],
                                   station)
    /\ radio_state' = ClearedRadioState
    /\ threads' = [threads EXCEPT ![1] = IF outlives THEN Running ELSE Begun]
    /\ track_monitor_thread' = 1
    /\ MemoryBecomes(memory_after_command(GateMemory))
    /\ UNCHANGED <<command, events, observer_vars>>

\* _monitor_track_changes up to its loop (lines 601-615), the delay not
\* interrupted
SMMonitorStart ==
    /\ threads[1].pc = "begin"
    /\ monitor_state' =
          reset_for_station_change([monitor_state EXCEPT !.command_triggered = FALSE],
                                   current_station)
    /\ threads' = [threads EXCEPT ![1] = Running]
    /\ MemoryBecomes(memory_after_command(GateMemory))
    /\ UNCHANGED <<plugin_vars, radio_state, command, events, observer_vars>>

\* lines 633-638: the poll is due
poll_begins(state, station) ==
    LET checked == [state EXCEPT !.last_check_time = 1]
    IN  IF station # checked.current_station
        THEN reset_for_station_change(checked, station)
        ELSE checked

\* one iteration of the loop whose poll returns a title (lines 633-654)
SMPollCore(display_title) ==
    LET state == poll_begins(monitor_state, current_station)
        r == process_track_update(state, display_title, NormalizedTitle[display_title])
    IN  /\ threads[1].pc = "loop"
        /\ monitor_state' = r.state
        /\ AnnounceTracks(r.announce)
        /\ sm_call' = [display_title |-> display_title, announce |-> r.announce,
                        was_lazy |-> state.is_lazy_mode,
                        had_baseline |-> state.prev_check_title # NoTitle]
        /\ UNCHANGED <<gate_vars, plugin_vars, threads, command, gate_call, clock,
                       normalize_call, station_change>>

SMPoll ==
    \E display_title \in SMTitles :
        SMPollCore(display_title) /\ UNCHANGED <<ticks, accepted>>

\* one iteration of the loop whose poll returns no title (lines 633-645)
SMPollEmpty ==
    /\ threads[1].pc = "loop"
    /\ monitor_state' = poll_begins(monitor_state, current_station)
    /\ UNCHANGED <<gate_vars, plugin_vars, radio_state, threads, command, events,
                   observer_vars>>

\* _stop_radio (lines 523-550); the monitor thread sees the stop signal and
\* ends
SMStop ==
    /\ stop_monitor' = TRUE
    /\ player' = FALSE
    /\ playing' = FALSE
    /\ current_station' = None
    /\ monitor_state' = stop_clears_command_triggered(monitor_state)
    /\ radio_state' = ClearedRadioState
    /\ threads' = [threads EXCEPT ![1] = DeadThread]
    /\ MemoryBecomes(memory_after_command(GateMemory))
    /\ UNCHANGED <<track_monitor_thread, command, events, observer_vars>>

\* the host takes a dispatched event off the queue; what the gate answers
\* when the host asks it is the matter of SpecGate and SpecE2E
HostTakesEvent ==
    /\ events # <<>>
    /\ events' = Tail(events)
    /\ UNCHANGED <<gate_vars, monitor_state, plugin_vars, radio_state, threads,
                   command, observer_vars>>

NextSM ==
    \/ \E station \in Stations, outlives \in BOOLEAN : SMStart(station, outlives)
    \/ SMMonitorStart
    \/ SMPoll
    \/ SMPollEmpty
    \/ SMStop
    \/ HostTakesEvent

SpecSM == Init /\ [][NextSM]_vars

\* ------------------------------------------------------------------------
\* SpecE2E: one session from construction: _start_radio, the start of the
\* monitor thread, at most MaxTicks polls that return a title (ticks keeps
\* what each returned and left), and the host asking the gate about every
\* dispatched event (accepted keeps the titles it replied to)
\* ------------------------------------------------------------------------
\* the first _start_radio after construction
FirstStart ==
    /\ track_monitor_thread = NoThread
    /\ \E station \in Stations : SMStart(station, FALSE)

\* a poll that returns a title, recorded
Tick ==
    /\ Len(ticks) < MaxTicks
    /\ \E display_title \in SMTitles :
          /\ SMPollCore(display_title)
          /\ ticks' = Append(ticks,
                  [title |-> display_title,
                   announce |-> sm_call'.announce # <<>>,
                   lazy |-> monitor_state'.is_lazy_mode,
                   checks |-> monitor_state'.checks_without_change,
                   baseline |-> monitor_state'.prev_check_title])
    /\ UNCHANGED accepted

\* lines 293-296: the host asks should_reply_check about a radio_changed
\* event, and replies when the answer is true
HostHandlesEvent ==
    /\ events # <<>>
    /\ GateEvaluate(Head(events))
    /\ events' = Tail(events)
    /\ accepted' = IF should_reply_to_radio_event(GateMemory, Head(events)).reply
                   THEN Append(accepted, Head(events).title)
                   ELSE accepted
    /\ UNCHANGED <<monitor_state, plugin_vars, radio_state, threads, command,
                   gate_call, sm_call, ticks, clock, normalize_call,
                   station_change>>

NextE2E ==
    \/ FirstStart
    \/ SMMonitorStart
    \/ Tick
    \/ SMPollEmpty
    \/ HostHandlesEvent

SpecE2E == Init /\ [][NextE2E]_vars

\* ------------------------------------------------------------------------
\* SpecSessions: SpecE2E with further commands: stop_radio, and play_radio
\* or change_radio after the first, each issued when the host has handled
\* the events dispatched so far, so that the gate meets the first title of
\* a session with the memory the sessions before have left
\* ------------------------------------------------------------------------
\* a later _start_radio, the host having handled the events so far
LaterStart ==
    /\ track_monitor_thread # NoThread
    /\ events = <<>>
    /\ \E station \in Stations, outlives \in BOOLEAN : SMStart(station, outlives)

\* stop_radio while the radio plays, the host having handled the events
StopPlaying ==
    /\ playing
    /\ events = <<>>
    /\ SMStop

NextSessions ==
    \/ FirstStart
    \/ LaterStart
    \/ SMMonitorStart
    \/ Tick
    \/ SMPollEmpty
    \/ StopPlaying
    \/ HostHandlesEvent

SpecSessions == Init /\ [][NextSessions]_vars

\* ------------------------------------------------------------------------
\* SpecFailure: the sessions of SpecSM on a station of each type, with polls
\* in which the retrieval fails (timeout, network error, status other than
\* 200, malformed response)
\* ------------------------------------------------------------------------
\* a station for each branch of _get_track_info
StationTypes ==
    {"SomaFM Lush", "Hutton Orbital Radio", "Radio DeeJay", "Radio Sidewinder"}

\* What _get_track_info returns when the retrieval fails:
\* get_somafm_track_info "" (somafm_track_retriever.py, lines 56-62),
\* get_hutton_track_info "Unavailable", get_deejay_track_info ""
\* (deejay_track_retriever.py, lines 76-91), the VLC branch "" (line 690).
\* Where get_deejay_track_info raises instead, the loop's except clause
\* leaves the state as an empty title does.
failed_track_info(station_name) ==
    IF is_somafm_station(station_name) THEN <<>>
    ELSE IF is_hutton_station(station_name) THEN Unavailable
    ELSE IF is_deejay_station(station_name) THEN <<>>
    ELSE <<>>

\* _start_radio on a station of any type
FailureStart == \E station \in StationTypes : SMStart(station, FALSE)

\* one iteration of the loop whose retrieval fails (lines 633-654)
PollFails ==
    LET display_title == failed_track_info(current_station)
    IN  /\ threads[1].pc = "loop"
        /\ IF display_title = <<>>
           THEN SMPollEmpty
           ELSE SMPollCore(display_title) /\ UNCHANGED <<ticks, accepted>>

NextFailure ==
    \/ FailureStart
    \/ SMMonitorStart
    \/ SMPoll
    \/ PollFails
    \/ SMStop
    \/ HostTakesEvent

SpecFailure == Init /\ [][NextFailure]_vars

\* ------------------------------------------------------------------------
\* SpecPolicy: _start_radio on a station of each type and the polls of the
\* monitor, and reset_for_station_change applied to the MonitorState with
\* any station identifier
\* ------------------------------------------------------------------------
PolicyReset(station) ==
    /\ monitor_state' = reset_for_station_change(monitor_state, station)
    /\ UNCHANGED <<gate_vars, plugin_vars, radio_state, threads, command, events,
                   observer_vars>>

\* one iteration of the loop whose poll returns one of two songs
PolicyPoll ==
    \E display_title \in {SongA, SongB} :
        SMPollCore(display_title) /\ UNCHANGED <<ticks, accepted>>

NextPolicy ==
    \/ \E station \in StationIds : PolicyReset(station)
    \/ FailureStart
    \/ SMMonitorStart
    \/ PolicyPoll
    \/ HostTakesEvent

SpecPolicy == Init /\ [][NextPolicy]_vars

\* ------------------------------------------------------------------------
\* Spec: the host thread runs the actions play_radio / change_radio
\* (_start_radio) and stop_radio (_stop_radio) one at a time, the monitor
\* threads run _monitor_track_changes, the host handles the dispatched
\* events; every step is one of the blocks of lines named with it
\* ------------------------------------------------------------------------
\* a station name the actions can be given that RADIO_STATIONS does not hold
UnlistedStation == "Radio Nowhere"

\* lines 453, 460: RADIO_STATIONS.get(args["station"], {}).get("url")
station_url(station) == station \in Stations

Alive(t) == threads[t].pc # "dead"

\* Thread.is_alive() of self.track_monitor_thread (lines 510, 546)
thread_is_alive == track_monitor_thread # NoThread /\ Alive(track_monitor_thread)

SetThread(t, fields) == threads' = [threads EXCEPT ![t] = fields]

Goto(t, pc) == SetThread(t, [threads[t] EXCEPT !.pc = pc])

\* ---- the actions ---------------------------------------------------------
\* the host starts play_radio or change_radio
PlayCommand(station) ==
    /\ command.pc = "idle"
    /\ command' = [pc |-> "stop_set", op |-> "play", station |-> station,
                   url |-> station_url(station)]
    /\ UNCHANGED <<gate_vars, monitor_state, plugin_vars, radio_state, threads,
                   events, observer_vars>>

\* the host starts stop_radio
StopCommand ==
    /\ command.pc = "idle"
    /\ command' = [pc |-> "stop_set", op |-> "stop", station |-> None, url |-> FALSE]
    /\ UNCHANGED <<gate_vars, monitor_state, plugin_vars, radio_state, threads,
                   events, observer_vars>>

\* _stop_radio, line 526: self.stop_monitor.set()
StopRadio_set ==
    /\ command.pc = "stop_set"
    /\ stop_monitor' = TRUE
    /\ command' = [command EXCEPT !.pc = "stop_clear"]
    /\ UNCHANGED <<gate_vars, monitor_state, current_station, player, playing,
                   track_monitor_thread, radio_state, threads, events, observer_vars>>

\* _stop_radio, lines 529-543
StopRadio_clear ==
    /\ command.pc = "stop_clear"
    /\ player' = FALSE
    /\ playing' = FALSE
    /\ current_station' = None
    /\ monitor_state' = stop_clears_command_triggered(monitor_state)
    /\ radio_state' = ClearedRadioState
    /\ command' = [command EXCEPT !.pc = "join"]
    /\ UNCHANGED <<gate_vars, stop_monitor, track_monitor_thread, threads, events,
                   observer_vars>>

\* a command that goes on to the player whatever the url
url_missing_never(url) == FALSE

\* line 488: not url
url_missing(url) == ~url

\* _stop_radio, lines 546-550: join(timeout=2) returns when the thread has
\* ended or the timeout has passed; then _stop_radio returns, and so does
\* _start_radio when the station has no url (lines 488-490)
StopRadio_join ==
    /\ command.pc = "join"
    /\ command' = IF command.op = "play" /\ ~url_missing(command.url)
                  THEN [command EXCEPT !.pc = "player"]
                  ELSE Idle
    /\ UNCHANGED <<gate_vars, monitor_state, plugin_vars, radio_state, threads,
                   events, observer_vars>>

\* _start_radio, lines 494-499: the player is created and started, or vlc
\* raises and _start_radio returns (lines 520-522)
StartRadio_player ==
    /\ command.pc = "player"
    /\ \E raised \in BOOLEAN :
          IF raised
          THEN command' = Idle /\ UNCHANGED player
          ELSE command' = [command EXCEPT !.pc = "set"] /\ player' = TRUE
    /\ UNCHANGED <<gate_vars, monitor_state, current_station, playing, stop_monitor,
                   track_monitor_thread, radio_state, threads, events, observer_vars>>

\* _start_radio, lines 501-503
StartRadio_set ==
    /\ command.pc = "set"
    /\ current_station' = command.station
    /\ playing' = TRUE
    /\ stop_monitor' = FALSE
    /\ command' = [command EXCEPT !.pc = "arm"]
    /\ station_change' = (monitor_state.current_station # command.station)
    /\ UNCHANGED <<gate_vars, monitor_state, player, track_monitor_thread,
                   radio_state, threads, events, call_vars>>

\* _start_radio, lines 506-507
StartRadio_arm ==
    /\ command.pc = "arm"
    /\ monitor_state' =
          reset_for_station_change([monitor_state EXCEPT !.command_triggered = TRUE],
                                   command.station)
    /\ command' = [command EXCEPT !.pc = "spawn"]
    /\ UNCHANGED <<gate_vars, plugin_vars, radio_state, threads, events, observer_vars>>

\* a thread started whatever the state of the one before
starts_new_thread_always(thread, alive) == TRUE

\* line 510: not self.track_monitor_thread or not ....is_alive()
starts_new_thread(thread, alive) == thread = NoThread \/ ~alive

\* threading.Thread(...): a Thread object, in the first slot that holds no
\* live thread
NewThread == CHOOSE t \in Slots : ~Alive(t) /\ \A u \in Slots : Alive(u) \/ t <= u

\* _start_radio, lines 510-519
StartRadio_spawn ==
    /\ command.pc = "spawn"
    /\ IF starts_new_thread(track_monitor_thread, thread_is_alive)
       THEN /\ \E t \in Slots : ~Alive(t)
            /\ track_monitor_thread' = NewThread
            /\ SetThread(NewThread, [DeadThread EXCEPT !.pc = "begin"])
       ELSE UNCHANGED <<track_monitor_thread, threads>>
    /\ command' = Idle
    /\ UNCHANGED <<gate_vars, monitor_state, current_station, player, playing,
                   stop_monitor, radio_state, events, observer_vars>>

\* _monitor_track_changes, lines 601-605
Monitor_begin(t) ==
    /\ threads[t].pc = "begin"
    /\ IF monitor_state.command_triggered
       THEN SetThread(t, [threads[t] EXCEPT !.pc = "delay", !.i = 0])
       ELSE Goto(t, "init")
    /\ UNCHANGED <<gate_vars, monitor_state, plugin_vars, radio_state, command,
                   events, observer_vars>>

\* lines 606-610: one turn of the delay loop, or its end
Monitor_delay(t) ==
    /\ threads[t].pc = "delay"
    /\ IF threads[t].i < COMMAND_RESPONSE_DELAY
       THEN /\ IF stop_monitor
               THEN SetThread(t, DeadThread)
               ELSE SetThread(t, [threads[t] EXCEPT !.i = @ + 1])
            /\ UNCHANGED monitor_state
       ELSE /\ monitor_state' = [monitor_state EXCEPT !.command_triggered = FALSE]
            /\ SetThread(t, [threads[t] EXCEPT !.pc = "init", !.i = 0])
    /\ UNCHANGED <<gate_vars, plugin_vars, radio_state, command, events, observer_vars>>

\* line 613
Monitor_init(t) ==
    /\ threads[t].pc = "init"
    /\ monitor_state' = reset_for_station_change(monitor_state, current_station)
    /\ Goto(t, "loop")
    /\ UNCHANGED <<gate_vars, plugin_vars, radio_state, command, events, observer_vars>>

\* line 618: while not self.stop_monitor.is_set()
Monitor_loop(t) ==
    /\ threads[t].pc = "loop"
    /\ Goto(t, IF stop_monitor THEN "exit" ELSE "guard")
    /\ UNCHANGED <<gate_vars, monitor_state, plugin_vars, radio_state, command,
                   events, observer_vars>>

\* line 660: the function returns and the thread ends
Monitor_exit(t) ==
    /\ threads[t].pc = "exit"
    /\ SetThread(t, DeadThread)
    /\ UNCHANGED <<gate_vars, monitor_state, plugin_vars, radio_state, command,
                   events, observer_vars>>

\* lines 620-622
Monitor_guard(t) ==
    /\ threads[t].pc = "guard"
    /\ Goto(t, IF ~player \/ stop_monitor THEN "loop" ELSE "interval")
    /\ UNCHANGED <<gate_vars, monitor_state, plugin_vars, radio_state, command,
                   events, observer_vars>>

\* lines 624-633: the poll is due when the interval has passed since
\* last_check_time, which it has when last_check_time is 0
Monitor_interval(t) ==
    /\ threads[t].pc = "interval"
    /\ \E due \in BOOLEAN :
          /\ monitor_state.last_check_time = 0 => due
          /\ IF due
             THEN /\ monitor_state' = [monitor_state EXCEPT !.last_check_time = 1]
                  /\ Goto(t, "station")
             ELSE /\ UNCHANGED monitor_state
                  /\ Goto(t, "loop")
    /\ UNCHANGED <<gate_vars, plugin_vars, radio_state, command, events, observer_vars>>

\* lines 636-641: the station check, and the call of _get_track_info
Monitor_station(t) ==
    LET state == IF current_station # monitor_state.current_station
                 THEN reset_for_station_change(monitor_state, current_station)
                 ELSE monitor_state
    IN  /\ threads[t].pc = "station"
        /\ monitor_state' = state
        /\ SetThread(t, [threads[t] EXCEPT !.pc = "fetch",
                                           !.station = state.current_station])
        /\ station_change' = FALSE
        /\ UNCHANGED <<gate_vars, plugin_vars, radio_state, command, events,
                       call_vars>>

\* the loop without its lines 643-645
no_title_never(display_title) == FALSE

\* line 643: if not display_title
no_title(display_title) == display_title = <<>>

\* _get_track_info (lines 662-692): the titles it can return
track_info(station_name, has_player) ==
    IF station_name = None THEN {<<>>}
    ELSE IF is_special_station(station_name) THEN ProviderTitles
    ELSE IF ~has_player THEN {<<>>}
    ELSE ProviderTitles

\* get_deejay_track_info lets an exception of _map_title through
\* (deejay_track_retriever.py, lines 48, 94)
track_info_raises(station_name) == is_deejay_station(station_name)

\* lines 641-648: _get_track_info returns
Monitor_fetch(t) ==
    /\ threads[t].pc = "fetch"
    /\ \E display_title \in track_info(threads[t].station, player) :
          SetThread(t, [threads[t] EXCEPT
                            !.pc = IF no_title(display_title)
                                   THEN "loop" ELSE "process",
                            !.station = None,
                            !.display_title = display_title,
                            !.after_stop = stop_monitor /\ display_title # <<>>,
                            !.retrieved_from = IF display_title = <<>> THEN None
                                               ELSE threads[t].station])
    /\ UNCHANGED <<gate_vars, monitor_state, plugin_vars, radio_state, command,
                   events, observer_vars>>

\* lines 641, 656-658: _get_track_info raises
Monitor_raise(t) ==
    /\ threads[t].pc = "fetch"
    /\ track_info_raises(threads[t].station)
    /\ SetThread(t, [threads[t] EXCEPT !.pc = "except", !.station = None])
    /\ UNCHANGED <<gate_vars, monitor_state, plugin_vars, radio_state, command,
                   events, observer_vars>>

\* line 658: time.sleep(5)
Monitor_except(t) ==
    /\ threads[t].pc = "except"
    /\ Goto(t, "loop")
    /\ UNCHANGED <<gate_vars, monitor_state, plugin_vars, radio_state, command,
                   events, observer_vars>>

\* _process_track_update up to its call of _announce_track, or to its end
\* when it makes none
Monitor_process(t) ==
    LET display_title == threads[t].display_title
        normalized_title == NormalizedTitle[display_title]
        command_triggered == monitor_state.command_triggered
        branch == process_branch(monitor_state, normalized_title, command_triggered)
        state == before_announce(monitor_state, branch, normalized_title)
    IN  /\ threads[t].pc = "process"
        /\ IF announces(branch)
           THEN /\ monitor_state' = state
                /\ SetThread(t, [threads[t] EXCEPT
                        !.pc = "announce",
                        !.branch = branch,
                        !.call = <<EventContent(display_title, state.current_station,
                                                command_triggered)>>])
           ELSE /\ monitor_state' = after_announce(state, branch, normalized_title)
                /\ SetThread(t, [threads[t] EXCEPT !.pc = "sleep",
                                                   !.display_title = <<>>,
                                                   !.after_stop = FALSE,
                                                   !.retrieved_from = None])
        /\ UNCHANGED <<gate_vars, plugin_vars, radio_state, command, events,
                       observer_vars>>

\* _announce_track, lines 752-777
Monitor_announce(t) ==
    /\ threads[t].pc = "announce"
    /\ IF AnnounceRejects[threads[t].call[1].title]
       THEN /\ Goto(t, "after")
            /\ UNCHANGED <<events, radio_state>>
       ELSE /\ Len(events) < MaxEvents
            /\ events' = Append(events, threads[t].call[1])
            /\ radio_state' = ClearedRadioState
            /\ Goto(t, "announced")
    /\ UNCHANGED <<gate_vars, monitor_state, plugin_vars, command, observer_vars>>

\* _announce_track, lines 780-790
Monitor_announced(t) ==
    /\ threads[t].pc = "announced"
    /\ radio_state' = UpdatedRadioState(threads[t].call[1])
    /\ Goto(t, "after")
    /\ UNCHANGED <<gate_vars, monitor_state, plugin_vars, command, events,
                   observer_vars>>

\* _process_track_update after _announce_track has returned
Monitor_after(t) ==
    /\ threads[t].pc = "after"
    /\ monitor_state' = after_announce(monitor_state, threads[t].branch,
                                       NormalizedTitle[threads[t].display_title])
    /\ SetThread(t, [DeadThread EXCEPT !.pc = "sleep"])
    /\ UNCHANGED <<gate_vars, plugin_vars, radio_state, command, events, observer_vars>>

\* line 654: time.sleep(check_interval)
Monitor_sleep(t) ==
    /\ threads[t].pc = "sleep"
    /\ Goto(t, "loop")
    /\ UNCHANGED <<gate_vars, monitor_state, plugin_vars, radio_state, command,
                   events, observer_vars>>

Next ==
    \/ \E station \in Stations \cup {UnlistedStation} : PlayCommand(station)
    \/ StopCommand
    \/ StopRadio_set
    \/ StopRadio_clear
    \/ StopRadio_join
    \/ StartRadio_player
    \/ StartRadio_set
    \/ StartRadio_arm
    \/ StartRadio_spawn
    \/ \E t \in Slots :
          \/ Monitor_begin(t)
          \/ Monitor_delay(t)
          \/ Monitor_init(t)
          \/ Monitor_loop(t)
          \/ Monitor_exit(t)
          \/ Monitor_guard(t)
          \/ Monitor_interval(t)
          \/ Monitor_station(t)
          \/ Monitor_fetch(t)
          \/ Monitor_raise(t)
          \/ Monitor_except(t)
          \/ Monitor_process(t)
          \/ Monitor_announce(t)
          \/ Monitor_announced(t)
          \/ Monitor_after(t)
          \/ Monitor_sleep(t)
    \/ HostTakesEvent

Spec == Init /\ [][Next]_vars

\* ------------------------------------------------------------------------
\* SpecTimed: the blocks of lines of Spec, with time. A block takes no time;
\* time passes in time.sleep and in join(timeout=2), and only when no thread
\* and no command has a block to run and no dispatched event waits.
\* ------------------------------------------------------------------------
\* what the timed actions leave alone
untimed_vars ==
    <<gate_vars, gate_call, sm_call, ticks, accepted, normalize_call,
      station_change>>

\* the thread has no time.sleep to finish
Awake(t) == clock.wake[t] = 0

Sleep(clk, t, duration) == [clk EXCEPT !.wake[t] = duration]

\* the clock entries of a thread that has ended
Ended(clk, t) ==
    [clk EXCEPT !.wake[t] = 0, !.check_interval[t] = 0, !.asked[t] = None,
               !.gap[t] = 0]

\* the host starts play_radio or change_radio
TPlayCommand(station) ==
    /\ command.pc = "idle"
    /\ command' = [pc |-> "stop_set", op |-> "play", station |-> station,
                   url |-> station_url(station)]
    /\ clock' = [clock EXCEPT !.host_wait = 0, !.since_command = 0]
    /\ UNCHANGED <<untimed_vars, monitor_state, plugin_vars, radio_state, threads,
                   events>>

\* the host starts stop_radio
TStopCommand ==
    /\ command.pc = "idle"
    /\ command' = [pc |-> "stop_set", op |-> "stop", station |-> None, url |-> FALSE]
    /\ clock' = [clock EXCEPT !.host_wait = 0]
    /\ UNCHANGED <<untimed_vars, monitor_state, plugin_vars, radio_state, threads,
                   events>>

\* _stop_radio, line 526
TStopRadio_set ==
    /\ command.pc = "stop_set"
    /\ stop_monitor' = TRUE
    /\ command' = [command EXCEPT !.pc = "stop_clear"]
    /\ clock' = [clock EXCEPT !.since_stop = IF stop_monitor THEN @ ELSE 0]
    /\ UNCHANGED <<untimed_vars, monitor_state, current_station, player, playing,
                   track_monitor_thread, radio_state, threads, events>>

\* _stop_radio, lines 529-543
TStopRadio_clear ==
    /\ command.pc = "stop_clear"
    /\ player' = FALSE
    /\ playing' = FALSE
    /\ current_station' = None
    /\ monitor_state' = stop_clears_command_triggered(monitor_state)
    /\ radio_state' = ClearedRadioState
    /\ command' = [command EXCEPT !.pc = "join"]
    /\ clock' = [clock EXCEPT !.host_wait = 0]
    /\ UNCHANGED <<untimed_vars, stop_monitor, track_monitor_thread, threads, events>>

\* a join without its timeout
join_returns_no_timeout(alive, waited) == ~alive

\* line 547: join(timeout=2) returns
join_returns(alive, waited) == ~alive \/ waited >= JoinTimeout

\* _stop_radio, lines 546-550, and lines 488-490 of _start_radio
TStopRadio_join ==
    /\ command.pc = "join"
    /\ join_returns(thread_is_alive, clock.host_wait)
    /\ command' = IF command.op = "play" /\ ~url_missing(command.url)
                  THEN [command EXCEPT !.pc = "player"]
                  ELSE Idle
    /\ clock' = [clock EXCEPT !.host_wait = 0]
    /\ UNCHANGED <<untimed_vars, monitor_state, plugin_vars, radio_state, threads,
                   events>>

\* _start_radio, lines 493-499, after time.sleep(0.5)
TStartRadio_player ==
    /\ command.pc = "player"
    /\ clock.host_wait >= HalfSecond
    /\ \E raised \in BOOLEAN :
          IF raised
          THEN command' = Idle /\ UNCHANGED player
          ELSE command' = [command EXCEPT !.pc = "set"] /\ player' = TRUE
    /\ clock' = [clock EXCEPT !.host_wait = 0]
    /\ UNCHANGED <<untimed_vars, monitor_state, current_station, playing,
                   stop_monitor, track_monitor_thread, radio_state, threads, events>>

\* _start_radio, lines 501-503
TStartRadio_set ==
    /\ command.pc = "set"
    /\ current_station' = command.station
    /\ playing' = TRUE
    /\ stop_monitor' = FALSE
    /\ command' = [command EXCEPT !.pc = "arm"]
    /\ UNCHANGED <<untimed_vars, monitor_state, player, track_monitor_thread,
                   radio_state, threads, events, clock>>

\* _start_radio, lines 506-507
TStartRadio_arm ==
    /\ command.pc = "arm"
    /\ monitor_state' =
          reset_for_station_change([monitor_state EXCEPT !.command_triggered = TRUE],
                                   command.station)
    /\ command' = [command EXCEPT !.pc = "spawn"]
    /\ UNCHANGED <<untimed_vars, plugin_vars, radio_state, threads, events, clock>>

\* _start_radio, lines 510-519
TStartRadio_spawn ==
    /\ command.pc = "spawn"
    /\ IF starts_new_thread(track_monitor_thread, thread_is_alive)
       THEN /\ \E t \in Slots : ~Alive(t)
            /\ track_monitor_thread' = NewThread
            /\ SetThread(NewThread, [DeadThread EXCEPT !.pc = "begin"])
       ELSE UNCHANGED <<track_monitor_thread, threads>>
    /\ command' = Idle
    /\ UNCHANGED <<untimed_vars, monitor_state, current_station, player, playing,
                   stop_monitor, radio_state, events, clock>>

\* a thread at a block it can run now
At(t, pc) == threads[t].pc = pc /\ Awake(t)

\* _monitor_track_changes, lines 601-605
TMonitor_begin(t) ==
    /\ At(t, "begin")
    /\ IF monitor_state.command_triggered
       THEN SetThread(t, [threads[t] EXCEPT !.pc = "delay", !.i = 0])
       ELSE Goto(t, "init")
    /\ UNCHANGED <<untimed_vars, monitor_state, plugin_vars, radio_state, command,
                   events, clock>>

\* lines 606-610: one turn of the delay loop with its time.sleep(1), or the
\* end of the loop
TMonitor_delay(t) ==
    /\ At(t, "delay")
    /\ IF threads[t].i < COMMAND_RESPONSE_DELAY
       THEN /\ IF stop_monitor
               THEN SetThread(t, DeadThread) /\ clock' = Ended(clock, t)
               ELSE /\ SetThread(t, [threads[t] EXCEPT !.i = @ + 1])
                    /\ clock' = Sleep(clock, t, Seconds(1))
            /\ UNCHANGED monitor_state
       ELSE /\ monitor_state' = [monitor_state EXCEPT !.command_triggered = FALSE]
            /\ SetThread(t, [threads[t] EXCEPT !.pc = "init", !.i = 0])
            /\ UNCHANGED clock
    /\ UNCHANGED <<untimed_vars, plugin_vars, radio_state, command, events>>

\* line 613
TMonitor_init(t) ==
    /\ At(t, "init")
    /\ monitor_state' = reset_for_station_change(monitor_state, current_station)
    /\ Goto(t, "loop")
    /\ UNCHANGED <<untimed_vars, plugin_vars, radio_state, command, events, clock>>

\* line 618
TMonitor_loop(t) ==
    /\ At(t, "loop")
    /\ Goto(t, IF stop_monitor THEN "exit" ELSE "guard")
    /\ UNCHANGED <<untimed_vars, monitor_state, plugin_vars, radio_state, command,
                   events, clock>>

\* line 660
TMonitor_exit(t) ==
    /\ At(t, "exit")
    /\ SetThread(t, DeadThread)
    /\ clock' = Ended(clock, t)
    /\ UNCHANGED <<untimed_vars, monitor_state, plugin_vars, radio_state, command,
                   events>>

\* lines 620-622, with time.sleep(1)
TMonitor_guard(t) ==
    /\ At(t, "guard")
    /\ IF ~player \/ stop_monitor
       THEN Goto(t, "loop") /\ clock' = Sleep(clock, t, Seconds(1))
       ELSE Goto(t, "interval") /\ UNCHANGED clock
    /\ UNCHANGED <<untimed_vars, monitor_state, plugin_vars, radio_state, command,
                   events>>

\* line 629: current_time - state.last_check_time < check_interval is false
poll_due(last_check_time, since_check, check_interval) ==
    last_check_time = 0 \/ since_check >= Seconds(check_interval)

\* lines 624-633, with time.sleep(1) when the poll is not due
TMonitor_interval(t) ==
    LET check_interval == current_interval(monitor_state)
    IN  /\ At(t, "interval")
        /\ IF poll_due(monitor_state.last_check_time, clock.since_check,
                       check_interval)
           THEN /\ monitor_state' = [monitor_state EXCEPT !.last_check_time = 1]
                /\ Goto(t, "station")
                /\ clock' = [clock EXCEPT !.check_interval[t] = check_interval,
                                          !.gap[t] = clock.since_check,
                                          !.since_check = 0]
           ELSE /\ UNCHANGED monitor_state
                /\ Goto(t, "loop")
                /\ clock' = Sleep(clock, t, Seconds(1))
        /\ UNCHANGED <<untimed_vars, plugin_vars, radio_state, command, events>>

\* lines 636-641
TMonitor_station(t) ==
    LET state == IF current_station # monitor_state.current_station
                 THEN reset_for_station_change(monitor_state, current_station)
                 ELSE monitor_state
    IN  /\ At(t, "station")
        /\ monitor_state' = state
        /\ SetThread(t, [threads[t] EXCEPT !.pc = "fetch",
                                           !.station = state.current_station])
        /\ UNCHANGED <<untimed_vars, plugin_vars, radio_state, command, events,
                       clock>>

\* _get_track_info has run: the station whose provider it asked (line 664:
\* none when it has no station name)
Called(clk, t, station_name) == [clk EXCEPT !.asked[t] = station_name, !.gap[t] = 0]

\* lines 641-648: _get_track_info returns; time.sleep(1) after no title
TMonitor_fetch(t) ==
    /\ At(t, "fetch")
    /\ \E display_title \in track_info(threads[t].station, player) :
          /\ SetThread(t, [threads[t] EXCEPT
                            !.pc = IF no_title(display_title)
                                   THEN "loop" ELSE "process",
                            !.station = None,
                            !.display_title = display_title,
                            !.after_stop = stop_monitor /\ display_title # <<>>,
                            !.retrieved_from = IF display_title = <<>> THEN None
                                               ELSE threads[t].station])
          /\ clock' = IF display_title = <<>>
                      THEN Sleep(Called(clock, t, threads[t].station), t, Seconds(1))
                      ELSE Called(clock, t, threads[t].station)
    /\ UNCHANGED <<untimed_vars, monitor_state, plugin_vars, radio_state, command,
                   events>>

\* lines 641, 656-658: _get_track_info raises, time.sleep(5) begins
TMonitor_raise(t) ==
    /\ At(t, "fetch")
    /\ track_info_raises(threads[t].station)
    /\ SetThread(t, [threads[t] EXCEPT !.pc = "except", !.station = None])
    /\ clock' = Sleep(Called(clock, t, threads[t].station), t, ErrorSleep)
    /\ UNCHANGED <<untimed_vars, monitor_state, plugin_vars, radio_state, command,
                   events>>

\* line 658: time.sleep(5) is over
TMonitor_except(t) ==
    /\ At(t, "except")
    /\ Goto(t, "loop")
    /\ UNCHANGED <<untimed_vars, monitor_state, plugin_vars, radio_state, command,
                   events, clock>>

\* _process_track_update up to its call of _announce_track, or to its end
\* and the start of time.sleep(check_interval) (line 654)
TMonitor_process(t) ==
    LET display_title == threads[t].display_title
        normalized_title == NormalizedTitle[display_title]
        command_triggered == monitor_state.command_triggered
        branch == process_branch(monitor_state, normalized_title, command_triggered)
        state == before_announce(monitor_state, branch, normalized_title)
    IN  /\ At(t, "process")
        /\ IF announces(branch)
           THEN /\ monitor_state' = state
                /\ SetThread(t, [threads[t] EXCEPT
                        !.pc = "announce",
                        !.branch = branch,
                        !.call = <<EventContent(display_title, state.current_station,
                                                command_triggered)>>])
                /\ UNCHANGED clock
           ELSE /\ monitor_state' = after_announce(state, branch, normalized_title)
                /\ SetThread(t, [threads[t] EXCEPT !.pc = "sleep",
                                                   !.display_title = <<>>,
                                                   !.after_stop = FALSE,
                                                   !.retrieved_from = None])
                /\ clock' = Sleep(clock, t, Seconds(clock.check_interval[t]))
        /\ UNCHANGED <<untimed_vars, plugin_vars, radio_state, command, events>>

\* _announce_track, lines 752-780, time.sleep(0.5) begun
TMonitor_announce(t) ==
    /\ At(t, "announce")
    /\ IF AnnounceRejects[threads[t].call[1].title]
       THEN /\ Goto(t, "after")
            /\ UNCHANGED <<events, radio_state, clock>>
       ELSE /\ Len(events) < MaxEvents
            /\ events' = Append(events, threads[t].call[1])
            /\ radio_state' = ClearedRadioState
            /\ Goto(t, "announced")
            /\ clock' = Sleep(clock, t, HalfSecond)
    /\ UNCHANGED <<untimed_vars, monitor_state, plugin_vars, command>>

\* _announce_track, lines 783-790
TMonitor_announced(t) ==
    /\ At(t, "announced")
    /\ radio_state' = UpdatedRadioState(threads[t].call[1])
    /\ Goto(t, "after")
    /\ UNCHANGED <<untimed_vars, monitor_state, plugin_vars, command, events, clock>>

\* _process_track_update after _announce_track has returned, and the start
\* of time.sleep(check_interval) (line 654)
TMonitor_after(t) ==
    /\ At(t, "after")
    /\ monitor_state' = after_announce(monitor_state, threads[t].branch,
                                       NormalizedTitle[threads[t].display_title])
    /\ SetThread(t, [DeadThread EXCEPT !.pc = "sleep"])
    /\ clock' = Sleep(clock, t, Seconds(clock.check_interval[t]))
    /\ UNCHANGED <<untimed_vars, plugin_vars, radio_state, command, events>>

\* line 654: time.sleep(check_interval) is over
TMonitor_sleep(t) ==
    /\ At(t, "sleep")
    /\ Goto(t, "loop")
    /\ UNCHANGED <<untimed_vars, monitor_state, plugin_vars, radio_state, command,
                   events, clock>>

\* the host takes a dispatched event off the queue
THostTakesEvent ==
    /\ events # <<>>
    /\ events' = Tail(events)
    /\ UNCHANGED <<untimed_vars, monitor_state, plugin_vars, radio_state, threads,
                   command, clock>>

\* the host is in a call that takes time
HostWaits ==
    \/ command.pc = "join" /\ ~join_returns(thread_is_alive, clock.host_wait)
    \/ command.pc = "player" /\ clock.host_wait < HalfSecond

Count(value, cap) == IF value < cap THEN value + 1 ELSE cap

\* half a second passes
Advance ==
    /\ command.pc = "idle" \/ HostWaits
    /\ \A t \in Slots : Alive(t) => ~Awake(t)
    /\ events = <<>>
    /\ clock' =
          [clock EXCEPT
              !.wake = [t \in Slots |-> IF clock.wake[t] > 0
                                        THEN clock.wake[t] - HalfSecond ELSE 0],
              !.host_wait = IF HostWaits THEN @ + HalfSecond ELSE @,
              !.since_check = Count(@, CheckClockCap),
              !.since_command = Count(@, CommandClockCap),
              !.since_stop = Count(@, StopClockCap)]
    /\ UNCHANGED <<untimed_vars, monitor_state, plugin_vars, radio_state, threads,
                   command, events>>

NextTimed ==
    \/ \E station \in Stations \cup {UnlistedStation} : TPlayCommand(station)
    \/ TStopCommand
    \/ TStopRadio_set
    \/ TStopRadio_clear
    \/ TStopRadio_join
    \/ TStartRadio_player
    \/ TStartRadio_set
    \/ TStartRadio_arm
    \/ TStartRadio_spawn
    \/ \E t \in Slots :
          \/ TMonitor_begin(t)
          \/ TMonitor_delay(t)
          \/ TMonitor_init(t)
          \/ TMonitor_loop(t)
          \/ TMonitor_exit(t)
          \/ TMonitor_guard(t)
          \/ TMonitor_interval(t)
          \/ TMonitor_station(t)
          \/ TMonitor_fetch(t)
          \/ TMonitor_raise(t)
          \/ TMonitor_except(t)
          \/ TMonitor_process(t)
          \/ TMonitor_announce(t)
          \/ TMonitor_announced(t)
          \/ TMonitor_after(t)
          \/ TMonitor_sleep(t)
    \/ THostTakesEvent
    \/ Advance

SpecTimed == Init /\ [][NextTimed]_vars

\* ------------------------------------------------------------------------
\* The conditions of rule 1 as the claims state them
\* ------------------------------------------------------------------------
UpperOf(c) ==
    CASE c = "u" -> "U" [] c = "n" -> "N" [] c = "k" -> "K" [] c = "o" -> "O"
      [] c = "w" -> "W" [] OTHER -> c

\* "unknown" occurs in the title in some letter case
HasUnknownAnyCase(title) ==
    \E i \in 1..(Len(title) - 6) :
        \A j \in 1..7 : title[i + j - 1] \in {unknown[j], UpperOf(unknown[j])}

\* fewer than 3 characters once leading and trailing white space is removed
RECURSIVE TrimmedLength(_)
TrimmedLength(title) ==
    IF title = <<>> THEN 0
    ELSE IF Head(title) \in {" ", "U+00A0"} THEN TrimmedLength(Tail(title))
    ELSE IF title[Len(title)] \in {" ", "U+00A0"}
         THEN TrimmedLength(SubSeq(title, 1, Len(title) - 1))
    ELSE Len(title)

\* empty, a placeholder, or too short: tabulated over the titles of the model
Rule1Rejects ==
    [t \in AllTitles \cup {NoTitle} |->
        t = <<>> \/ HasUnknownAnyCase(t) \/ TrimmedLength(t) < 3]

\* TrimmedLength, tabulated over the titles of the model
TrimmedLengthOf == [t \in AllTitles |-> TrimmedLength(t)]

Evaluated == gate_call # NoCall

\* ------------------------------------------------------------------------
\* Claims about the state machine (SpecSM, SpecE2E)
\* ------------------------------------------------------------------------
\* C1: when _process_track_update finds the state in lazy mode without a
\* baseline, then for any title that is not empty it calls _announce_track
\* once, with that title, and leaves the normalized title as the baseline,
\* whatever happened to the monitor before.
C1_FirstLazyCheckAnnounces ==
    [][\A display_title \in SMTitles :
          (/\ SMPollCore(display_title)
           /\ monitor_state.is_lazy_mode
           /\ monitor_state.prev_check_title = NoTitle)
          => /\ Len(sm_call'.announce) = 1
             /\ sm_call'.announce[1].title = display_title
             /\ monitor_state'.prev_check_title = NormalizedTitle[display_title]]_vars

\* a first lazy check on a blank title, in a session that follows one on
\* another station whose announcement is still waiting: the call is made and
\* the baseline is the empty normalized title
C1_Witness ==
    /\ threads[1].pc = "loop"
    /\ sm_call.was_lazy /\ ~sm_call.had_baseline
    /\ sm_call.display_title = BlankTitle
    /\ Len(sm_call.announce) = 1
    /\ monitor_state.prev_check_title = <<>>
    /\ events # <<>> /\ events[1].station # current_station

\* C2: a poll that finds lazy mode and returns the baseline title makes no
\* call of _announce_track and counts one more unchanged check; the mode is
\* still lazy after the 1st unchanged check and active after the 2nd, so
\* lazy mode never holds 2 unchanged checks; two such polls in a row both
\* make no call.
C2_SecondUnchangedCheckSwitches ==
    \A i \in 1..Len(ticks) :
        /\ ticks[i].lazy => ticks[i].checks <= 1
        /\ (/\ i + 1 <= Len(ticks)
            /\ ticks[i].lazy /\ ticks[i].baseline # NoTitle
            /\ NormalizedTitle[ticks[i + 1].title] = ticks[i].baseline)
           => /\ ~ticks[i + 1].announce
              /\ ticks[i + 1].checks = ticks[i].checks + 1
              /\ ticks[i + 1].lazy <=> ticks[i + 1].checks = 1
        /\ (/\ i + 2 <= Len(ticks)
            /\ ticks[i].lazy /\ ticks[i].baseline # NoTitle
            /\ NormalizedTitle[ticks[i + 1].title] = ticks[i].baseline
            /\ NormalizedTitle[ticks[i + 2].title] = ticks[i].baseline)
           => ~ticks[i + 1].announce /\ ~ticks[i + 2].announce

\* the baseline captured, then the same title twice in other spellings: no
\* call, lazy after the first and active after the second
C2_Witness ==
    /\ Len(ticks) >= 3
    /\ ticks[1].title = SongA /\ ticks[1].lazy /\ ticks[1].checks = 0
    /\ ticks[2].title = SongAVariant /\ ~ticks[2].announce /\ ticks[2].lazy
    /\ ticks[3].title = SongA /\ ~ticks[3].announce /\ ~ticks[3].lazy

\* C3: in active mode a poll whose normalized title is not the last
\* announced one calls _announce_track and leaves lazy mode, no unchanged
\* check counted and the new normalized title as the baseline; a poll whose
\* normalized title is the last announced one, command_triggered false,
\* makes no call and leaves active mode.
C3_ActiveModePoll ==
    [][\A display_title \in SMTitles :
          (SMPollCore(display_title) /\ ~monitor_state.is_lazy_mode)
          => /\ (NormalizedTitle[display_title] # monitor_state.last_title)
                   => /\ Len(sm_call'.announce) = 1
                      /\ sm_call'.announce[1].title = display_title
                      /\ monitor_state'.is_lazy_mode
                      /\ monitor_state'.checks_without_change = 0
                      /\ monitor_state'.prev_check_title =
                              NormalizedTitle[display_title]
             /\ (/\ NormalizedTitle[display_title] = monitor_state.last_title
                 /\ ~monitor_state.command_triggered)
                   => /\ sm_call'.announce = <<>>
                      /\ ~monitor_state'.is_lazy_mode]_vars

\* a poll that found active mode and a new title
C3_Witness ==
    /\ threads[1].pc = "loop"
    /\ ~sm_call.was_lazy
    /\ Len(sm_call.announce) = 1
    /\ monitor_state.is_lazy_mode
    /\ monitor_state.checks_without_change = 0
    /\ monitor_state.prev_check_title = NormalizedTitle[sm_call.display_title]

\* C4: from construction, for titles T1 and T2 that pass rule 1 and differ
\* once normalized: when the first four polls return T1, T1, T1, T2, the
\* calls of _announce_track are made at polls 1 and 4 only, the mode is lazy
\* after polls 1 and 2, active after poll 3 and lazy after poll 4, and the
\* gate accepts T1 then T2 and nothing else.
C4_EndToEnd ==
    \A T1, T2 \in SMTitles :
        (/\ ~Rule1Rejects[T1] /\ ~Rule1Rejects[T2]
         /\ NormalizedTitle[T1] # NormalizedTitle[T2]
         /\ Len(ticks) = 4
         /\ ticks[1].title = T1 /\ ticks[2].title = T1
         /\ ticks[3].title = T1 /\ ticks[4].title = T2)
        => /\ ticks[1].announce /\ ~ticks[2].announce
           /\ ~ticks[3].announce /\ ticks[4].announce
           /\ ticks[1].lazy /\ ticks[2].lazy /\ ~ticks[3].lazy /\ ticks[4].lazy
           /\ accepted \o [i \in 1..Len(events) |-> events[i].title] = <<T1, T2>>
           /\ events = <<>> => accepted = <<T1, T2>>

\* the four polls made and both events handled
C4_Witness ==
    /\ Len(ticks) = 4
    /\ ticks[1].title = SongA /\ ticks[2].title = SongA
    /\ ticks[3].title = SongA /\ ticks[4].title = SongB
    /\ events = <<>>
    /\ accepted = <<SongA, SongB>>

\* ------------------------------------------------------------------------
\* Claims about the announce gate (SpecGate)
\* ------------------------------------------------------------------------
\* C5: a command-triggered candidate that passes rule 1 is accepted whatever
\* the gate memory was (last reply, repeat counters).
C5_CommandAlwaysAccepted ==
    (Evaluated /\ gate_call.content.command_triggered
               /\ ~Rule1Rejects[gate_call.content.title])
        => gate_call.reply

\* a command-triggered candidate accepted although it repeats the last reply
\* and was counted before
C5_Witness ==
    /\ Evaluated /\ gate_call.content.command_triggered /\ gate_call.reply
    /\ gate_call.dup /\ gate_call.seen >= 1

\* C6: of two consecutive evaluations of the same automatic candidate the
\* second returns false, whatever the memory; from the memory as constructed
\* the first returns true (for a title that passes rule 1).
C6_SecondIdenticalRejected ==
    /\ (Evaluated /\ gate_call.clean /\ ~gate_call.content.command_triggered
                  /\ ~Rule1Rejects[gate_call.content.title])
            => gate_call.reply
    /\ (Evaluated /\ gate_call.again /\ ~gate_call.content.command_triggered)
            => ~gate_call.reply

\* the second of two identical automatic candidates, the first of which was
\* accepted as the first occurrence of its title
C6_Witness ==
    /\ Evaluated /\ gate_call.again /\ ~gate_call.content.command_triggered
    /\ ~gate_call.reply /\ gate_call.dup /\ gate_call.seen = 1
    /\ last_replied_title = gate_call.content.title
    /\ DOMAIN title_repeat_count =
            {<<NormalizedTitle[gate_call.content.title], gate_call.content.station>>}

\* C7: an automatic candidate whose normalized title and station are those
\* of the last reply is rejected; command-triggered (and passing rule 1) it
\* is accepted.
C7_DuplicateOfLastReply ==
    /\ (Evaluated /\ gate_call.dup /\ ~gate_call.content.command_triggered)
            => ~gate_call.reply
    /\ (Evaluated /\ gate_call.dup /\ gate_call.content.command_triggered
                  /\ ~Rule1Rejects[gate_call.content.title])
            => gate_call.reply

\* a rejected automatic candidate that only rule 3 can reject: its counter
\* was 0, and its title is the last reply in another spelling
C7_Witness ==
    /\ Evaluated /\ gate_call.dup /\ ~gate_call.content.command_triggered
    /\ ~gate_call.reply /\ gate_call.seen = 0
    /\ ~Rule1Rejects[gate_call.content.title]
    /\ last_replied_title # gate_call.content.title

C9_NoPlaceholderDispatched ==
    \A i \in 1..Len(events) : ~Rule1Rejects[events[i].title]

\* C9, amended: every event dispatched by _announce_track carries a title
\* that is not empty and has at least 3 characters after trimming; whether
\* it holds "unknown" is not looked at before the dispatch.
C9_DispatchedTitleLongEnough ==
    \A i \in 1..Len(events) :
        events[i].title # <<>> /\ TrimmedLengthOf[events[i].title] >= 3

\* a track and then a placeholder dispatched
C9_Witness ==
    /\ Len(events) = 2
    /\ events[1].title = SongA
    /\ events[2].title = UnknownTitle

\* C10: whatever play, change and stop commands the host has run, at most
\* one monitor thread is alive, and a thread is started only in a state
\* where no monitor thread is alive.
C10_OneMonitorThread ==
    /\ [](Cardinality({t \in Slots : threads[t].pc # "dead"}) <= 1)
    /\ [][\A t \in Slots :
            (threads[t].pc = "dead" /\ threads'[t].pc # "dead")
            => \A u \in Slots : threads[u].pc = "dead"]_vars

\* a thread just started by a finished command while the event that an
\* earlier thread dispatched for another station is still waiting
C10_Witness ==
    /\ command.pc = "idle"
    /\ track_monitor_thread # NoThread
    /\ threads[track_monitor_thread].pc = "begin"
    /\ events # <<>> /\ events[1].station # current_station


\* ------------------------------------------------------------------------
\* C11: when a play or change command ends while the monitor task of the
\* station played before is running, the one running task afterwards is a
\* newly started one: the task the plugin holds stands at the start of
\* _monitor_track_changes and no other task is alive. (When no task was
\* running, line 510 starts one, so only that case can fail.)
\* ------------------------------------------------------------------------
C11_ChangeStartsNewTask ==
    [][(command.pc = "spawn" /\ command'.pc = "idle")
          => /\ track_monitor_thread' # NoThread
             /\ threads'[track_monitor_thread'].pc = "begin"
             /\ \A t \in Slots : Alive(t)' => t = track_monitor_thread']_vars


\* ------------------------------------------------------------------------
\* C12: while the stop signal is set, a monitor task that was running when
\* it was set has exited within the polling granularity: no task is alive
\* once the signal has been set for more than 2 seconds (twice the 1 second
\* step, the time join(timeout=2) allows).
\* ------------------------------------------------------------------------
C12_StopObservedInTime ==
    (stop_monitor /\ \E t \in Slots : Alive(t)) => clock.since_stop <= Seconds(2)


C14_NoPollInGraceDelay ==
    [][\A t \in Slots :
          (/\ threads[t].pc = "fetch" /\ threads'[t].pc # "fetch"
           /\ command.pc = "idle" /\ playing
           /\ threads[t].station = current_station)
          => clock.since_command >= CommandClockCap]_vars


\* ------------------------------------------------------------------------
\* C15: the first title the monitor obtains after a play or change command,
\* when it is a valid one, is surfaced to the listener: the event
\* dispatched for it is one the gate replies to, whatever the gate
\* remembers of the sessions before.
\* ------------------------------------------------------------------------
C15_FirstTitleSurfaced ==
    (/\ ~sm_call.had_baseline
     /\ ~InvalidTitle[sm_call.display_title]
     /\ sm_call.announce # <<>>
     /\ events = sm_call.announce)
    => should_reply_to_radio_event(GateMemory, events[1]).reply


\* ------------------------------------------------------------------------
\* C16: a poll whose retrieval fails, on a station of any type, is a poll
\* without data: it dispatches no event and leaves the mode, the baseline,
\* the last title and the counter of unchanged checks as they were.
\* ------------------------------------------------------------------------
C16_FailureIsNoData ==
    [][PollFails
          => /\ events' = events
             /\ monitor_state'.is_lazy_mode = monitor_state.is_lazy_mode
             /\ monitor_state'.prev_check_title = monitor_state.prev_check_title
             /\ monitor_state'.last_title = monitor_state.last_title
             /\ monitor_state'.checks_without_change
                   = monitor_state.checks_without_change]_vars


\* ------------------------------------------------------------------------
\* C17: whenever no command is in progress and the radio is playing, a
\* monitor task is alive.
\* ------------------------------------------------------------------------
C17_PlayingHasMonitor ==
    (command.pc = "idle" /\ playing) => \E t \in Slots : Alive(t)


\* ------------------------------------------------------------------------
\* C18: when a monitor task asks the provider for the title of a station
\* and its call before was for the same station, at least the interval of
\* the current mode has passed since that call.
\* ------------------------------------------------------------------------
C18_CallsAnIntervalApart ==
    [][\A t \in Slots :
          (/\ threads[t].pc = "fetch" /\ threads'[t].pc # "fetch"
           /\ threads[t].station # None
           /\ clock.asked[t] = threads[t].station)
          => clock.gap[t] >= Seconds(current_interval(monitor_state))]_vars


\* ------------------------------------------------------------------------
\* C19, as stated: the mode changes from lazy to active only in a poll that
\* is the second unchanged lazy check, and from active to lazy only in a
\* poll that finds a title other than the last announced one; no other
\* operation changes it.
\* ------------------------------------------------------------------------
LazyToActiveAtSecondUnchanged ==
    \E display_title \in SMTitles :
        /\ SMPollCore(display_title)
        /\ monitor_state.prev_check_title = NormalizedTitle[display_title]
        /\ monitor_state.checks_without_change = 1
        /\ monitor_state'.checks_without_change = 2

ActiveToLazyAtChange ==
    \E display_title \in SMTitles :
        /\ SMPollCore(display_title)
        /\ NormalizedTitle[display_title] # monitor_state.last_title

SpecialPair == <<LAZY_INTERVAL_SPECIAL, ACTIVE_INTERVAL_SPECIAL>>

StandardPair == <<LAZY_INTERVAL_STANDARD, ACTIVE_INTERVAL_STANDARD>>

IntervalPair == <<monitor_state.lazy_interval, monitor_state.active_interval>>

\* the stations of RADIO_STATIONS among the identifiers of the model
ListedStations ==
    {"Radio Sidewinder", "Radio DeeJay", "SomaFM Lush", "Hutton Orbital Radio"}

PairsOrdered ==
    /\ SpecialPair[1] > StandardPair[1]
    /\ SpecialPair[2] > StandardPair[2]
    /\ IntervalPair \in {SpecialPair, StandardPair}
    /\ IntervalPair[1] > IntervalPair[2]

HEADER_LAZY_SPECIAL == 120
HEADER_LAZY_OTHERS == 90
HEADER_ACTIVE_SPECIAL == 30
HEADER_ACTIVE_OTHERS == 15

\* the interval the header documents for a station in a mode
header_interval(station_name, is_lazy_mode) ==
    IF is_somafm_station(station_name) \/ is_hutton_station(station_name)
    THEN (IF is_lazy_mode THEN HEADER_LAZY_SPECIAL ELSE HEADER_ACTIVE_SPECIAL)
    ELSE (IF is_lazy_mode THEN HEADER_LAZY_OTHERS ELSE HEADER_ACTIVE_OTHERS)

\* ------------------------------------------------------------------------
\* C21: the interval between polls is the one the module header documents:
\* in lazy mode 120 s on a SomaFM or Hutton station and 90 s on any other,
\* in active mode 30 s on a SomaFM or Hutton station and 15 s on any other.
\* ------------------------------------------------------------------------
C21_HeaderIntervals ==
    current_interval(monitor_state)
        = header_interval(monitor_state.current_station,
                          monitor_state.is_lazy_mode)


\* ------------------------------------------------------------------------
\* C22: the memory of the announce gate (the last replied title and
\* station, the repeat counters) is changed by no stop, play or change
\* command and by no reset of the monitor state: a step that changes it is
\* an evaluation of the gate on the event at the head of the queue, and it
\* leaves the memory that evaluation computes.
\* ------------------------------------------------------------------------
C22_OnlyGateChangesMemory ==
    [][/\ GateMemory' # GateMemory
          => /\ HostHandlesEvent
             /\ GateMemory'
                   = should_reply_to_radio_event(GateMemory, Head(events)).mem
       /\ \/ playing' # playing
          \/ current_station' # current_station
          \/ monitor_state'.current_station # monitor_state.current_station
          \/ monitor_state'.command_triggered # monitor_state.command_triggered
          => GateMemory' = GateMemory]_vars

\* a station change after the gate has replied on the station before: the
\* monitor state is reset, the memory still holds the reply and a counter
C22_Witness ==
    /\ playing
    /\ last_replied_title # NoTitle
    /\ last_replied_station \notin {None, current_station}
    /\ title_repeat_count # <<>>
    /\ monitor_state.prev_check_title = NoTitle
    /\ monitor_state.current_station = current_station


\* ------------------------------------------------------------------------
\* C23: the result of a poll that was in flight when the stop was requested
\* is discarded: the monitor thread dispatches no event for a title that
\* _get_track_info returned after stop_monitor was set.
\* ------------------------------------------------------------------------
C23_InFlightPollDiscarded ==
    [][\A t \in Slots :
          /\ threads[t].pc = "announce"
          /\ threads[t].after_stop
          => events' = events]_vars


\* ------------------------------------------------------------------------
\* C24: the MonitorState is changed by the monitor thread alone, and under
\* every interleaving of a station change with a poll in flight an event the
\* thread dispatches names the station its title was retrieved from.
\* ------------------------------------------------------------------------
\* a step of the host in _start_radio or _stop_radio leaves the MonitorState
MonitorStateOwnedByTask ==
    [][command' # command => monitor_state' = monitor_state]_vars

C24_TitleFromNamedStation ==
    [][\A t \in Slots :
          /\ threads[t].pc = "announce"
          /\ threads'[t].pc = "announced"
          => /\ events' = Append(events, threads[t].call[1])
             /\ threads[t].call[1].title = threads[t].display_title
             /\ threads[t].call[1].station = threads[t].retrieved_from]_vars


\* ------------------------------------------------------------------------
\* C25: _stop_radio can be called with nothing playing and no task running,
\* and twice in a row: when stop_radio returns nothing is playing, there is
\* no station, the stop signal is set and command_triggered is false, and
\* a stop_radio that finds the plugin in that state leaves it as it is at
\* every step.
\* ------------------------------------------------------------------------
StoppedState ==
    /\ ~playing
    /\ ~player
    /\ current_station = None
    /\ stop_monitor
    /\ ~monitor_state.command_triggered

C25_StopIdempotent ==
    [][/\ (command.op = "stop" /\ command.pc = "join" /\ command' = Idle)
          => StoppedState'
       /\ (command.op = "stop" /\ command' # command /\ StoppedState)
          => /\ StoppedState'
             /\ UNCHANGED <<plugin_vars, monitor_state>>]_vars

\* stop_radio called again after a _stop_radio that ran with nothing
\* playing and no monitor thread ever started (only _stop_radio sets the
\* stop signal)
C25_Witness ==
    /\ command.op = "stop"
    /\ command.pc = "stop_set"
    /\ track_monitor_thread = NoThread
    /\ \A t \in Slots : ~Alive(t)
    /\ StoppedState


\* ------------------------------------------------------------------------
\* C26: normalize_title is idempotent, normalize_title(normalize_title(x))
\* = normalize_title(x) for every title x, and it returns the empty string
\* for the empty title and for None.
\* ------------------------------------------------------------------------
C26_NormalizeIdempotent ==
    normalize_call.called
    => /\ normalize_call.twice = normalize_call.once
       /\ normalize_call.title \in {<<>>, NoTitle} => normalize_call.once = <<>>


\* ------------------------------------------------------------------------
\* C27, as stated. A poll that returns an empty title changes nothing of
\* the MonitorState but last_check_time: the mode, the baseline, the
\* counter of unchanged checks, the last announced title and
\* command_triggered stay, and no event is dispatched.
\* ------------------------------------------------------------------------
\* the step of thread t in which _get_track_info returns the empty title
EmptyTitleReturned(t) ==
    /\ threads[t].pc = "fetch"
    /\ threads'[t].pc \in {"loop", "process"}
    /\ threads'[t].display_title = <<>>

\* the step of thread t from line 633 to the call at line 641
StationChecked(t) == threads[t].pc = "station" /\ threads'[t].pc = "fetch"

\* the step leaves every field of the MonitorState but last_check_time
OnlyLastCheckTime ==
    monitor_state'
       = [monitor_state EXCEPT !.last_check_time = monitor_state'.last_check_time]

\* the step leaves the fields the claim names
NamedFieldsKept ==
    /\ monitor_state'.is_lazy_mode = monitor_state.is_lazy_mode
    /\ monitor_state'.prev_check_title = monitor_state.prev_check_title
    /\ monitor_state'.checks_without_change = monitor_state.checks_without_change
    /\ monitor_state'.last_title = monitor_state.last_title
    /\ monitor_state'.command_triggered = monitor_state.command_triggered

\* the empty title goes back to the loop, and the step changes nothing
EmptyTitleDropped(t) ==
    EmptyTitleReturned(t)
    => /\ threads'[t].pc = "loop"
       /\ UNCHANGED <<monitor_state, events, radio_state>>

C27_EmptyPollChangesNothing ==
    [][\A t \in Slots :
          /\ EmptyTitleDropped(t)
          /\ (/\ StationChecked(t)
              /\ track_info(threads'[t].station, player) = {<<>>})
             => NamedFieldsKept]_vars

\* C27, amended: as above, but the poll that finds self.current_station
\* other than the station of the MonitorState resets the state for it
\* (lines 636-638) before it asks for the title.
C27_EmptyPoll ==
    [][\A t \in Slots :
          /\ EmptyTitleDropped(t)
          /\ (threads[t].pc = "interval" /\ threads'[t].pc = "station")
             => OnlyLastCheckTime
          /\ StationChecked(t)
             => /\ events' = events
                /\ monitor_state'
                     = IF current_station # monitor_state.current_station
                       THEN reset_for_station_change(monitor_state, current_station)
                       ELSE monitor_state]_vars

\* the poll of a standard station has returned the empty title: the check
\* is recorded, no baseline is stored, the thread is back at the loop
C27_Witness ==
    /\ monitor_state.current_station = "Radio Sidewinder"
    /\ current_station = "Radio Sidewinder"
    /\ monitor_state.last_check_time = 1
    /\ monitor_state.prev_check_title = NoTitle
    /\ threads[1].pc = "loop"
    /\ threads[2].pc = "dead"
    /\ events = <<>>


\* ------------------------------------------------------------------------
\* C28: rule 4 of the gate. For a candidate that passes rule 1, is not
\* command-triggered and is not the last reply, the evaluation adds one to
\* the repeat counter of (normalized title, station) and rejects exactly
\* when the counter is then greater than 1; for a command-triggered
\* candidate that passes rule 1 it accepts and sets that counter to 0. No
\* evaluation touches another counter.
\* ------------------------------------------------------------------------
\* the repeat counter of the candidate of the evaluation the step makes
CounterBefore ==
    Get(title_repeat_count,
        <<NormalizedTitle[gate_call'.content.title], gate_call'.content.station>>, 0)

CounterAfter ==
    Get(title_repeat_count',
        <<NormalizedTitle[gate_call'.content.title], gate_call'.content.station>>, 0)

OtherCountersKept ==
    \A key \in DOMAIN title_repeat_count :
        key # <<NormalizedTitle[gate_call'.content.title], gate_call'.content.station>>
        => /\ key \in DOMAIN title_repeat_count'
           /\ title_repeat_count'[key] = title_repeat_count[key]

C28_RepeatCounter ==
    [][/\ OtherCountersKept
       /\ (/\ ~Rule1Rejects[gate_call'.content.title]
           /\ ~gate_call'.content.command_triggered
           /\ ~gate_call'.dup)
          => /\ CounterAfter = CounterBefore + 1
             /\ gate_call'.seen = CounterBefore
             /\ gate_call'.reply <=> ~(CounterAfter > 1)
       /\ (/\ ~Rule1Rejects[gate_call'.content.title]
           /\ gate_call'.content.command_triggered)
          => /\ gate_call'.reply
             /\ CounterAfter = 0
             /\ <<NormalizedTitle[gate_call'.content.title],
                  gate_call'.content.station>> \in DOMAIN title_repeat_count']_vars

\* a title that was accepted once, then another reply, then the title again:
\* not the last reply, counted a second time, rejected
C28_Witness ==
    /\ Evaluated
    /\ ~gate_call.content.command_triggered
    /\ ~gate_call.dup
    /\ gate_call.seen = 1
    /\ ~gate_call.reply
    /\ Get(title_repeat_count,
           <<NormalizedTitle[gate_call.content.title], gate_call.content.station>>,
           0) = 2


\* ------------------------------------------------------------------------
\* C29: command_triggered, set by a play or change command, is cleared by
\* the first poll that announces with it and by nothing before (a stop
\* command apart, which ends the session): a step that clears the flag
\* while the radio plays is a poll that calls _announce_track with the
\* flag, and after a poll that announced the flag is false.
\* ------------------------------------------------------------------------
FlagCleared == monitor_state.command_triggered /\ ~monitor_state'.command_triggered

C29_FlagClearedByAnnouncingPoll ==
    [][/\ (FlagCleared /\ playing')
          => /\ SMPoll
             /\ sm_call'.announce # <<>>
             /\ sm_call'.announce[1].command_triggered
       /\ (SMPoll /\ sm_call'.announce # <<>>)
          => ~monitor_state'.command_triggered]_vars


\* ------------------------------------------------------------------------
\* C30: after the monitored station has changed (a play or change command,
\* or the loop finding another self.current_station), the next poll runs on
\* a MonitorState that is reset in full: lazy mode, no unchanged check
\* counted, no baseline, no last announced title, the intervals of the new
\* station. The poll is the step that ends with the call of
\* _get_track_info (line 641); it is the next one after a change when it is
\* the first since _start_radio set a station other than the one the
\* state was for, or when it finds the station changed itself (lines
\* 636-638).
\* ------------------------------------------------------------------------
\* the fields of a state as reset_for_station_change leaves them
FreshState(state) ==
    /\ state.is_lazy_mode
    /\ state.checks_without_change = 0
    /\ state.prev_check_title = NoTitle
    /\ state.last_title = <<>>
    /\ <<state.lazy_interval, state.active_interval>>
          = IF is_special_station(state.current_station)
            THEN SpecialPair ELSE StandardPair

NoUrlCommand == command.op = "play" /\ ~command.url

NoThreadStarted ==
    /\ track_monitor_thread' = track_monitor_thread
    /\ \A t \in Slots : ~Alive(t) => threads'[t].pc = "dead"

C32_BaselineIsLastTitle ==
    \/ /\ monitor_state.prev_check_title = NoTitle
       /\ monitor_state.last_title = <<>>
    \/ monitor_state.prev_check_title = monitor_state.last_title

\* a poll in active mode has found another title and gone back to lazy
\* mode, where the title it announced is the baseline too
C32_Witness ==
    /\ sm_call # NoProcessCall
    /\ ~sm_call.was_lazy
    /\ sm_call.announce # <<>>
    /\ monitor_state.is_lazy_mode
    /\ monitor_state.last_title = NormalizedTitle[sm_call.display_title]
    /\ monitor_state.prev_check_title = monitor_state.last_title
    /\ monitor_state.last_title # <<>>


\* ------------------------------------------------------------------------
\* C33: with every poll and every reset taken as one step, the mode and
\* the counter of unchanged checks agree: in lazy mode checks_without_change
\* is 0 or 1, in active mode it is 2 and there is a baseline.
\* ------------------------------------------------------------------------
C33_ModeAgreesWithCounter ==
    IF monitor_state.is_lazy_mode
    THEN monitor_state.checks_without_change \in {0, 1}
    ELSE /\ monitor_state.checks_without_change = 2
         /\ monitor_state.prev_check_title # NoTitle

\* the second unchanged lazy check has just switched to active mode
C33_Witness ==
    /\ sm_call # NoProcessCall
    /\ sm_call.was_lazy
    /\ sm_call.announce = <<>>
    /\ ~monitor_state.is_lazy_mode
    /\ monitor_state.checks_without_change = 2
    /\ monitor_state.prev_check_title = NormalizedTitle[sm_call.display_title]


\* ------------------------------------------------------------------------
\* C34: when no candidate is command-triggered, the gate accepts each
\* (normalized title, station) pair at most once, however many other
\* tracks come between two occurrences of it.
\* ------------------------------------------------------------------------
C34_AcceptedAtMostOnce ==
    \A i, j \in 1..Len(accepted) : accepted[i] = accepted[j] => i = j

\* a track the gate accepted, then another one it accepted, then the first
\* offered again and turned away
C34_Witness ==
    /\ Len(accepted) >= 2
    /\ gate_call # NoCall
    /\ ~gate_call.reply
    /\ ~gate_call.dup
    /\ accepted[1] = <<NormalizedTitle[gate_call.content.title],
                       gate_call.content.station>>


\* ------------------------------------------------------------------------
\* C35: an evaluation of the gate that returns false leaves the last
\* replied title and station as they were, and one that returns true leaves
\* them equal to the title and the station of the candidate it accepted.
\* _last_reply_time is assigned at the same two places as the other two
\* (lines 400-402, 424-426).
\* ------------------------------------------------------------------------
C35_MemoryFollowsAnswer ==
    [][IF should_reply_to_radio_event(GateMemory, gate_call'.content).reply
       THEN /\ gate_call'.reply
            /\ last_replied_title' = gate_call'.content.title
            /\ last_replied_station' = gate_call'.content.station
       ELSE /\ ~gate_call'.reply
            /\ UNCHANGED <<last_replied_title, last_replied_station>>]_vars

\* a valid candidate other than the last reply has been turned away as a
\* repeat: the memory still holds the reply before it
C35_Witness ==
    /\ gate_call # NoCall
    /\ ~gate_call.reply
    /\ ~gate_call.dup
    /\ ~InvalidTitle[gate_call.content.title]
    /\ last_replied_title # NoTitle
    /\ <<last_replied_title, last_replied_station>>
          # <<gate_call.content.title, gate_call.content.station>>


\* ------------------------------------------------------------------------
\* C36: from the return of _stop_radio to the next play or change command
\* (no command in progress, the stop signal set, nothing playing),
\* _radio_state, which radio_status reports, holds no station and no title,
\* whatever a monitor thread that was inside _announce_track at the stop
\* does.
\* ------------------------------------------------------------------------
C36_StatusClearedAfterStop ==
    (command.pc = "idle" /\ stop_monitor /\ ~playing)
        => /\ radio_state.current_station = None
           /\ radio_state.current_title = NoTitle

====
